---- MODULE Spec2Model ----
(***************************************************************************)
(* A model of foxhole_fac_bot.py: the supply ledger (facilities, tunnels,  *)
(* users, contributions, orders), the two decay call sites, the audit-log  *)
(* coalescer, the dashboard reconciliation and pagination, the order       *)
(* handlers, the weekly leaderboard and the end of a war.                  *)
(*                                                                         *)
(* Numbers.  total_supplies is a Python int or float.  The model holds it  *)
(* as an integer count of 1/3600 units (SecondsPerHour), and time as whole *)
(* seconds, so that usage * seconds / 3600 and rate / 30 are exact.        *)
(* Floating-point rounding is not modelled.                                *)
(* One guild is modelled.                                                  *)
(***************************************************************************)
EXTENDS Integers, Sequences, FiniteSets, TLC

VARIABLES
    tunnels,          \* dict facility -> {"tunnels": dict name -> tdata}, in insertion order
    users,            \* dict user id -> total
    contributions,    \* dict user id -> [total_supplies, actions]
    orders_data,      \* [next_id, orders]
    dashboard_info,   \* the guild's entry of dashboard_info
    log_buffer,       \* dict <<user, target, day>> -> amount
    data_file,        \* tunnels.json
    user_file,        \* users.json
    dash_file,        \* dashboard.json
    orders_file,      \* orders.json
    contrib_file,     \* contributions.json
    now,              \* the wall clock, in seconds
    started,          \* on_ready has started the loops
    messages,         \* the chat platform: message id -> [channel, content]
    next_msg,         \* the id the platform gives to the next message
    log_lines,        \* the lines sent to the log thread, in order
    next_tick,        \* the earliest time of refresh_dashboard_loop's next iteration
    archives,         \* the bundles under data/archives, in order
    flush,            \* flush_supply_logs: [pc, todo, key, amount]
    refresh,          \* the refresh_*_dashboard calls in progress, by task
    war,              \* endwar: where the running /endwar is, and what it holds
    op,               \* history: what the last step did
    pre_tunnels,      \* history: tunnels before the last step
    issued,           \* history: the order ids order_create returned, in order
    recorded,         \* history: dict buffer key -> sum of the amounts log_action buffered
    emitted,          \* history: dict buffer key -> sum of the totals flush_supply_logs sent
    paginator,        \* a DashboardPaginator: [tunnels, page, total_pages, response]
    weekly,           \* weekly_leaderboard: [pc, day]
    caller,           \* history: the user of the last order interaction
    request           \* history: the arguments of the last command

memVars  == <<tunnels, users, contributions, orders_data, dashboard_info, log_buffer>>
fileVars == <<data_file, user_file, dash_file, orders_file, contrib_file>>
envVars  == <<now, started, messages, next_msg, log_lines, next_tick, archives>>
taskVars == <<flush, refresh, war>>
histVars == <<op, pre_tunnels, issued, recorded, emitted, caller, request>>
viewVars == <<paginator, weekly>>
(* What only the order handlers, the paginator and the weekly task change. *)
quietVars == <<issued, paginator, weekly, caller, request>>
tunnelQuiet == <<issued, paginator, weekly, caller>>
vars     == <<memVars, fileVars, envVars, taskVars, histVars, viewVars>>

----------------------------------------------------------------------------
(* Python dicts as functions.                                              *)

EmptyDict == [k \in {} |-> 0]

Put(d, k, v) == [x \in (DOMAIN d) \cup {k} |-> IF x = k THEN v ELSE d[x]]

Remove(d, k) == [x \in (DOMAIN d) \ {k} |-> d[x]]

Max(a, b) == IF a >= b THEN a ELSE b

(* The sum of f over the finite set S.                                     *)
RECURSIVE SumOver(_, _)
SumOver(S, f) ==
    IF S = {} THEN 0
    ELSE LET x == CHOOSE y \in S : TRUE IN f[x] + SumOver(S \ {x}, f)

RECURSIVE SumSeq(_)
SumSeq(s) == IF s = <<>> THEN 0 ELSE Head(s) + SumSeq(Tail(s))

----------------------------------------------------------------------------
(* Program constants.                                                      *)

SecondsPerHour == 3600
TickDivisor == 30
TickSeconds == 120
SUPPLY_INCREMENT_Dunne == 1500
SUPPLY_INCREMENT_Stowheel == 6000

(* A tdata field that is absent, and a last_updated that does not parse.   *)
NoTime == -1
BadTime == -2

(* amount supplies, in the model's 1/3600 units.                           *)
Units(amount) == amount * SecondsPerHour

----------------------------------------------------------------------------
(* Bounded inputs.                                                         *)

Channels == {1, 2, 3}
FacilityInputs == {"A", "B"}
TunnelInputs == {"T1", "T2"}
UserIds == {11, 12}

(* interaction.channel.name: a dashboard thread is named after a facility. *)
ChannelName(c) == CASE c = 1 -> "A" [] c = 2 -> "B" [] OTHER -> "C"

NoFacility == ""

----------------------------------------------------------------------------
(* Facility / tunnel helpers.  tunnels is a sequence of                    *)
(* [name, tunnels] entries: a dict in insertion order.                     *)

FacilityKeys(tn) == {tn[i].name : i \in 1..Len(tn)}

FacIndex(tn, f) == CHOOSE i \in 1..Len(tn) : tn[i].name = f

(* tunnels.setdefault(facility_name, {}) and the "tunnels" back-fill: the  *)
(* ledger after the call.                                                  *)
get_facility_record(tn, f) ==
    IF f \in FacilityKeys(tn) THEN tn
    ELSE Append(tn, [name |-> f, tunnels |-> EmptyDict])

get_facility_tunnels(tn, f) == tn[FacIndex(tn, f)].tunnels

(* The first facility, in dict order, that holds the name.                 *)
find_tunnel(tn, name) ==
    LET hits == {i \in 1..Len(tn) : name \in DOMAIN tn[i].tunnels}
    IN  IF hits = {} THEN NoFacility
        ELSE tn[CHOOSE i \in hits : \A j \in hits : i <= j].name

SetTunnel(tn, f, name, td) ==
    [tn EXCEPT ![FacIndex(tn, f)].tunnels = Put(@, name, td)]

(* At most one facility is bound to a channel, so the dict order of        *)
(* dashboard_info's facilities does not decide the result.                 *)
Get(d, k, default) == IF k \in DOMAIN d THEN d[k] ELSE default

Facilities(info) == Get(info, "facilities", EmptyDict)

get_facility_for_channel(info, channel_id) ==
    LET hits == {f \in DOMAIN Facilities(info) :
                    Get(Facilities(info)[f], "tunnel_channel", 0) = channel_id}
    IN  IF hits = {} THEN NoFacility ELSE CHOOSE f \in hits : TRUE

----------------------------------------------------------------------------
(* The decay engine.                                                       *)

(* Two variants of catch_up_tdata: one that leaves last_updated after a    *)
(* decay, one that does not clamp at zero.                                 *)
catch_up_mutant_keep_last(td, t) ==
    IF td.last_updated = NoTime \/ td.last_updated = BadTime
    THEN [td EXCEPT !.last_updated = t]
    ELSE IF t - td.last_updated > 0 /\ td.usage_rate > 0
         THEN [td EXCEPT !.total_supplies =
                            Max(0, @ - td.usage_rate * (t - td.last_updated))]
         ELSE td

catch_up_mutant_no_clamp(td, t) ==
    IF td.last_updated = NoTime \/ td.last_updated = BadTime
    THEN [td EXCEPT !.last_updated = t]
    ELSE IF t - td.last_updated > 0 /\ td.usage_rate > 0
         THEN [td EXCEPT !.total_supplies = @ - td.usage_rate * (t - td.last_updated),
                         !.last_updated = t]
         ELSE td

(* catch_up_tunnels, for one tunnel at wall-clock time t.                  *)
catch_up_tdata(td, t) ==
    IF td.last_updated = NoTime \/ td.last_updated = BadTime
    THEN [td EXCEPT !.last_updated = t]
    ELSE IF t - td.last_updated > 0 /\ td.usage_rate > 0
         THEN [td EXCEPT !.total_supplies =
                            Max(0, @ - td.usage_rate * (t - td.last_updated)),
                         !.last_updated = t]
         ELSE td

(* Whether catch_up_tunnels sets `updated` for this tunnel.                *)
catch_up_updates(td, t) ==
    /\ td.last_updated # NoTime
    /\ td.last_updated # BadTime
    /\ t - td.last_updated > 0
    /\ td.usage_rate > 0

catch_up_tunnels(tn, t) ==
    [i \in 1..Len(tn) |->
        [tn[i] EXCEPT !.tunnels =
            [n \in DOMAIN tn[i].tunnels |-> catch_up_tdata(tn[i].tunnels[n], t)]]]

catch_up_updated(tn, t) ==
    \E i \in 1..Len(tn) : \E n \in DOMAIN tn[i].tunnels :
        catch_up_updates(tn[i].tunnels[n], t)

(* The decay step of refresh_dashboard_loop, for one tunnel: rate / 30.    *)
tick_tdata(td) ==
    IF td.usage_rate > 0
    THEN [td EXCEPT !.total_supplies =
                        Max(0, @ - (Units(td.usage_rate) \div TickDivisor))]
    ELSE td

tick_tunnels(tn) ==
    [i \in 1..Len(tn) |->
        [tn[i] EXCEPT !.tunnels =
            [n \in DOMAIN tn[i].tunnels |-> tick_tdata(tn[i].tunnels[n])]]]

----------------------------------------------------------------------------
(* Dashboards: facility records, rendering, and the sync prefix of a       *)
(* refresh.                                                                *)

per_page == 8

RequiredFacilityFields ==
    {"facility_name", "tunnels", "tunnel_channel", "tunnel_message",
     "created_at", "created_by", "last_refresh"}

(* A JSON value that is a list is held as [list |-> its items]; every     *)
(* other function with string keys is a dict.                              *)
JsonList(items) == [list |-> items]

IsDict(v) == "list" \notin DOMAIN v

(* Every required field is set to its default, present or not.            *)
normalize_facility_record_mutant_reset(name, record, creator_id, t) ==
    [k \in (DOMAIN record) \cup RequiredFacilityFields |->
        IF k \in RequiredFacilityFields
        THEN CASE k = "facility_name" -> name
               [] k = "created_by" -> creator_id
               [] k \in {"created_at", "last_refresh"} -> t
               [] k = "tunnels" -> EmptyDict
               [] OTHER -> 0
        ELSE record[k]]

(* creator_id = 0 stands for None; the default "" of created_by is 0 too.  *)
(* A tunnels field that is not a dict is replaced by an empty dict.        *)
normalize_facility_record(name, record, creator_id, t) ==
    LET Default(k) ==
            CASE k = "facility_name" -> name
              [] k = "created_by" -> creator_id
              [] k \in {"created_at", "last_refresh"} -> t
              [] k = "tunnels" -> EmptyDict
              [] OTHER -> 0
    IN  [k \in (DOMAIN record) \cup RequiredFacilityFields |->
            IF k \notin DOMAIN record THEN Default(k)
            ELSE IF k = "tunnels" /\ ~IsDict(record[k]) THEN EmptyDict
            ELSE record[k]]

(* Python's int() of a supply count: truncation toward zero.               *)
Trunc(x) ==
    IF x >= 0 THEN x \div SecondsPerHour ELSE -((-x) \div SecondsPerHour)

(* -(-n // per_page), at least 1.                                          *)
total_pages(n) == Max(1, (n + per_page - 1) \div per_page)

(* A variant of build_page_embed that shows one tunnel only.               *)
build_page_embed_mutant_one_row(f, snap) ==
    [kind |-> "msupp", facility |-> f,
     pages |-> total_pages(Cardinality(DOMAIN snap)),
     rows |-> {[name |-> n,
                supplies |-> Trunc(snap[n].total_supplies),
                usage |-> snap[n].usage_rate] :
                  n \in {x \in DOMAIN snap : x = CHOOSE y \in DOMAIN snap : TRUE}}]

(* DashboardPaginator.build_page_embed on page 0.  The model's facilities  *)
(* hold at most per_page tunnels, so page 0 shows every tunnel and the     *)
(* order of the rows is not modelled.                                      *)
build_page_embed(f, snap) ==
    [kind |-> "msupp", facility |-> f,
     pages |-> total_pages(Cardinality(DOMAIN snap)),
     rows |-> {[name |-> n,
                supplies |-> Trunc(snap[n].total_supplies),
                usage |-> snap[n].usage_rate] : n \in DOMAIN snap}]

build_clickable_order_dashboard(od) ==
    [kind |-> "orders", facility |-> NoFacility, pages |-> 1,
     rows |-> {[id |-> i,
                quantity |-> od.orders[i].quantity,
                status |-> od.orders[i].status,
                claimed_by |-> od.orders[i].claimed_by] : i \in DOMAIN od.orders}]

(* The paginator holds the tunnel dicts it was built from, so an embed     *)
(* built later shows their current values.                                 *)
LiveSnap(tn, f, snap) ==
    [n \in DOMAIN snap |->
        IF f \in FacilityKeys(tn) /\ n \in DOMAIN get_facility_tunnels(tn, f)
        THEN get_facility_tunnels(tn, f)[n]
        ELSE snap[n]]

(* refresh_msupp_dashboard up to its first await.  outcome is "raise"      *)
(* (fac_cfg is None: the item assignment fails), "return" or "fetch".      *)
begin_msupp(info, tn, f, t) ==
    LET facs == Facilities(info)
    IN  IF f \notin DOMAIN facs
        THEN [info |-> info, tn |-> tn, outcome |-> "raise", saved |-> FALSE,
              chan |-> 0, msg |-> 0, snap |-> EmptyDict]
        ELSE LET cfg  == normalize_facility_record(
                             f, Put(facs[f], "last_refresh", t), 0, t)
                 info1 == Put(info, "facilities", Put(facs, f, cfg))
                 chan == cfg["tunnel_channel"]
                 msg  == cfg["tunnel_message"]
                 tn1  == get_facility_record(tn, f)
             IN  IF chan = 0 \/ msg = 0
                 THEN [info |-> info1, tn |-> tn, outcome |-> "return",
                       saved |-> TRUE, chan |-> chan, msg |-> msg,
                       snap |-> EmptyDict]
                 ELSE [info |-> info1, tn |-> tn1, outcome |-> "fetch",
                       saved |-> TRUE, chan |-> chan, msg |-> msg,
                       snap |-> get_facility_tunnels(tn1, f)]

(* refresh_order_dashboard up to its first await.                          *)
begin_orders(info, tn) ==
    LET chan == Get(info, "orders_channel", 0)
        msg  == Get(info, "orders_message", 0)
    IN  [info |-> info, tn |-> tn,
         outcome |-> IF chan = 0 \/ msg = 0 THEN "return" ELSE "fetch",
         saved |-> FALSE, chan |-> chan, msg |-> msg, snap |-> EmptyDict]

begin_refresh(info, tn, kind, f, t) ==
    IF kind = "msupp" THEN begin_msupp(info, tn, f, t) ELSE begin_orders(info, tn)

----------------------------------------------------------------------------
(* The tasks in progress.  "loop" is refresh_dashboard_loop's pass over    *)
(* the facilities; "cmd" is the refresh a command awaits, with what the    *)
(* command does once the refresh has returned; "cmd2" is a second          *)
(* interaction that is handled while the first one awaits.                 *)

Slots == {"loop", "cmd", "cmd2"}

NoEmbed == [kind |-> "", facility |-> NoFacility, pages |-> 0, rows |-> {}]

NoCont == [name |-> "none", user |-> 0, facility |-> NoFacility,
           tunnel |-> "", amount |-> 0]

(* detached: endwar replaced info["facilities"] while this call held the   *)
(* old dict, which facs then keeps.  size: the length of the dict the      *)
(* loop iterates, when it began.                                           *)
IdleSlot == [pc |-> "idle", kind |-> "", facility |-> NoFacility, chan |-> 0,
             msg |-> 0, snap |-> EmptyDict, embed |-> NoEmbed, todo |-> <<>>,
             cont |-> NoCont, detached |-> FALSE, facs |-> EmptyDict, size |-> 0]

DeadSlot == [IdleSlot EXCEPT !.pc = "dead"]

FetchSlot(b, kind, f, todo, cont) ==
    [pc |-> "fetch", kind |-> kind, facility |-> f, chan |-> b.chan,
     msg |-> b.msg, snap |-> b.snap, embed |-> NoEmbed, todo |-> todo,
     cont |-> cont, detached |-> FALSE, facs |-> EmptyDict, size |-> 0]

RECURSIVE SetToSeq(_)
SetToSeq(S) ==
    IF S = {} THEN <<>>
    ELSE LET x == CHOOSE y \in S : TRUE IN <<x>> \o SetToSeq(S \ {x})

(* refresh_dashboard_loop's `for facility_name in facilities.keys()`, from *)
(* the facility at the head of todo to the next await.  An exception that  *)
(* leaves refresh_msupp_dashboard ends the loop task.                      *)
RECURSIVE loop_next(_, _, _, _, _)
loop_next(info, tn, todo, t, saved) ==
    IF todo = <<>>
    THEN [info |-> info, tn |-> tn, slot |-> IdleSlot, saved |-> saved]
    ELSE LET b == begin_msupp(info, tn, Head(todo), t)
         IN  CASE b.outcome = "raise" ->
                    [info |-> info, tn |-> tn, slot |-> DeadSlot, saved |-> saved]
               [] b.outcome = "return" ->
                    loop_next(b.info, b.tn, Tail(todo), t, TRUE)
               [] OTHER ->
                    [info |-> b.info, tn |-> b.tn, saved |-> TRUE,
                     slot |-> FetchSlot(b, "msupp", Head(todo), Tail(todo), NoCont)]

----------------------------------------------------------------------------
(* The audit log.                                                          *)

SecondsPerDay == 86400

(* strftime("%Y-%m-%d") of the clock.                                      *)
DateKey(t) == t \div SecondsPerDay

SupplyActions ==
    {"added supplies", "submitted stacks", "1500 added", "supply added",
     "stack submission"}

(* str.lower on the action strings the model uses.                         *)
Lower(a) ==
    CASE a = "Added Supplies" -> "added supplies"
      [] a = "Supply Added" -> "supply added"
      [] OTHER -> a

is_supply(action) == Lower(action) \in SupplyActions

(* get_fac_log_thread returns a thread.                                    *)
LogThread(info) == Get(info, "log_channel", 0) # 0

(* format_log: what the line carries.                                      *)
format_log(actor, action, target, amount) ==
    [actor |-> actor, action |-> action, target |-> target, amount |-> amount]

(* A variant of log_action that sends a line for every action.             *)
log_action_mutant_send_supply(info, st, actor, action, target, amount, t) ==
    IF ~LogThread(info) THEN st
    ELSE [st EXCEPT !.lines = Append(@, format_log(actor, action, target, 0))]

(* log_action, from the state [buffer, lines, recorded] to the state       *)
(* after it.  `if amount:` skips a zero amount.                            *)
log_action(info, st, actor, action, target, amount, t) ==
    IF ~LogThread(info) THEN st
    ELSE IF is_supply(action)
         THEN LET key == <<actor, target, DateKey(t)>>
                  old == Get(st.buffer, key, 0)
              IN  [st EXCEPT !.buffer = Put(@, key, old + amount),
                             !.recorded = Put(@, key, Get(@, key, 0) + amount)]
         ELSE [st EXCEPT !.lines = Append(@, format_log(actor, action, target, 0))]

LogState == [buffer |-> log_buffer, lines |-> log_lines, recorded |-> recorded]

SetLogState(st) ==
    /\ log_buffer' = st.buffer
    /\ log_lines' = st.lines
    /\ recorded' = st.recorded
    /\ emitted' = emitted

(* log_contribution: the contributions dict after the call.                *)
ContribTotalActions == {"add supplies", "submit stacks", "1500 (done)"}

LowerContrib(a) == IF a = "1500 (Done)" THEN "1500 (done)" ELSE a

log_contribution(c, user, action, amount, tunnel, t) ==
    LET cur == Get(c, user, [total_supplies |-> 0, actions |-> <<>>])
        tot == IF LowerContrib(action) \in ContribTotalActions
               THEN cur.total_supplies + amount ELSE cur.total_supplies
    IN  Put(c, user,
            [total_supplies |-> tot,
             actions |-> Append(cur.actions,
                                [timestamp |-> t, action |-> action,
                                 tunnel |-> tunnel, amount |-> amount])])

----------------------------------------------------------------------------
(* Bounds.                                                                 *)

MaxMessages == 3
MaxLines == 2
MaxEvents == 2
MaxOrderId == 3

(* The instants at which the model looks at the clock: a tick interval, a  *)
(* delayed tick, the 4 h and 30 h of the reference scenario, and noon of   *)
(* the first and of the seventh day.                                       *)
TimePoints == {0, 120, 300, 14400, 14520, 43200, 122400, 561600}

----------------------------------------------------------------------------
(* The state after the module has loaded.                                  *)

IdleFlush == [pc |-> "idle", todo |-> <<>>, key |-> <<>>, amount |-> 0]

IdleWar == [pc |-> "idle", user |-> 0, size |-> 0, facility_count |-> 0,
            tunnel_count |-> 0]

(* DashboardPaginator.__init__ over n tunnels; response is what the last   *)
(* click on it was answered with.                                          *)
DashboardPaginator(n) ==
    [tunnels |-> n, page |-> 0, total_pages |-> total_pages(n), response |-> "none"]

(* weekly_leaderboard has not fired; day is the day of its last run.       *)
IdleWeekly == [pc |-> "idle", day |-> -1]

(* The state once the files tn, info, od, us, co have been loaded.         *)
InitLedger(tn, info, od, msgs, us, co) ==
    /\ tunnels = tn
    /\ users = us
    /\ contributions = co
    /\ orders_data = od
    /\ dashboard_info = info
    /\ log_buffer = EmptyDict
    /\ data_file = tn
    /\ user_file = us
    /\ dash_file = info
    /\ orders_file = od
    /\ contrib_file = co
    /\ now = 0
    /\ started = FALSE
    /\ messages = msgs
    /\ next_msg = Cardinality(DOMAIN msgs) + 1
    /\ log_lines = <<>>
    /\ next_tick = 0
    /\ archives = <<>>
    /\ flush = IdleFlush
    /\ refresh = [s \in Slots |-> IdleSlot]
    /\ war = IdleWar
    /\ op = "init"
    /\ pre_tunnels = tn
    /\ issued = <<>>
    /\ recorded = EmptyDict
    /\ emitted = EmptyDict
    /\ paginator = DashboardPaginator(0)
    /\ weekly = IdleWeekly
    /\ caller = 0
    /\ request = EmptyDict

InitWith(tn, info, od, msgs) ==
    InitLedger(tn, info, od, msgs, EmptyDict, EmptyDict)

NewOrders == [next_id |-> 1, orders |-> EmptyDict]

(* First start: the files hold their defaults.                             *)
Init == InitWith(<<>>, EmptyDict, NewOrders, EmptyDict)

History(name) ==
    /\ op' = name
    /\ pre_tunnels' = tunnels

NoLog == UNCHANGED <<log_buffer, log_lines, recorded, emitted>>

NoContStep == UNCHANGED <<contributions, contrib_file, log_buffer, log_lines, recorded, emitted>>

(* What a command does after the refresh it awaited has returned.          *)
ContStep(c) ==
    IF c.name = "addsupplies"
    THEN /\ contributions' = log_contribution(contributions, c.user, "add supplies",
                                              c.amount, c.tunnel, now)
         /\ contrib_file' = contributions'
         /\ SetLogState(log_action(dashboard_info, LogState, c.user, "added supplies",
                                   <<c.facility, c.tunnel>>, c.amount, now))
    ELSE IF c.name \in {"updated tunnel", "deleted tunnel"}
    THEN /\ UNCHANGED <<contributions, contrib_file>>
         /\ SetLogState(log_action(dashboard_info, LogState, c.user, c.name,
                                   <<c.facility, c.tunnel>>, c.amount, now))
    ELSE NoContStep

(* The end of a refresh_*_dashboard call of task s that leaves             *)
(* dashboard_info as info1 (saved1: it wrote dashboard.json).  The loop    *)
(* then takes the next key of the dict it iterates, which raises when the  *)
(* dict has changed size.                                                  *)
Finish(s, info1, saved1) ==
    IF s = "loop"
    THEN LET grown == /\ ~refresh[s].detached
                      /\ Cardinality(DOMAIN Facilities(info1)) # refresh[s].size
             r == IF grown
                  THEN [info |-> info1, tn |-> tunnels, slot |-> DeadSlot,
                        saved |-> saved1]
                  ELSE loop_next(info1, tunnels, refresh[s].todo, now, saved1)
         IN  /\ dashboard_info' = r.info
             /\ tunnels' = r.tn
             /\ dash_file' = IF r.saved THEN r.info ELSE dash_file
             /\ refresh' = [refresh EXCEPT ![s] =
                               [r.slot EXCEPT !.size = refresh[s].size,
                                              !.detached = refresh[s].detached,
                                              !.facs = refresh[s].facs]]
             /\ NoContStep
    ELSE /\ dashboard_info' = info1
         /\ tunnels' = tunnels
         /\ dash_file' = IF saved1 THEN info1 ELSE dash_file
         /\ refresh' = [refresh EXCEPT ![s] = IdleSlot]
         /\ ContStep(refresh[s].cont)

(* The handler of task s reaches `await refresh_..._dashboard(...)` with   *)
(* the ledger tn: the call runs to its first await.  A call that raises    *)
(* ends the handler; one that returns at once lets it go on.               *)
SlotRefresh(s, tn, kind, f, cont) ==
    LET b == begin_refresh(dashboard_info, tn, kind, f, now)
    IN  /\ dashboard_info' = b.info
        /\ dash_file' = IF b.saved THEN b.info ELSE dash_file
        /\ tunnels' = b.tn
        /\ refresh' = [refresh EXCEPT ![s] =
                          IF b.outcome = "fetch"
                          THEN FetchSlot(b, kind, f, <<>>, cont) ELSE IdleSlot]
        /\ IF b.outcome = "return" THEN ContStep(cont) ELSE NoContStep

CmdRefresh(tn, kind, f, cont) == SlotRefresh("cmd", tn, kind, f, cont)

BuildEmbed(s) ==
    IF refresh[s].kind = "msupp"
    THEN build_page_embed(refresh[s].facility,
                          LiveSnap(tunnels, refresh[s].facility, refresh[s].snap))
    ELSE build_clickable_order_dashboard(orders_data)

----------------------------------------------------------------------------
(* The environment.                                                        *)

Advance(t) ==
    /\ t \in TimePoints
    /\ t > now
    /\ now' = t
    /\ History("advance")
    /\ UNCHANGED <<memVars, fileVars, started, messages, next_msg, log_lines,
                   next_tick, archives, taskVars, quietVars, recorded, emitted>>

(* Someone deletes a dashboard message.                                    *)
DeleteMessage(m) ==
    /\ m \in DOMAIN messages
    /\ messages' = Remove(messages, m)
    /\ History("delete_message")
    /\ UNCHANGED <<memVars, fileVars, now, started, next_msg, log_lines,
                   next_tick, archives, taskVars, quietVars, recorded, emitted>>

----------------------------------------------------------------------------
(* Start-up and the periodic decay.                                        *)

(* normalize_dashboard_info on the guild's entry: [info, changed].         *)
normalize_dashboard_info(info) ==
    LET Rename(d, old, new) ==
            IF old \in DOMAIN d THEN Put(Remove(d, old), new, d[old]) ELSE d
        i1 == Rename(Rename(Rename(Rename(info,
                  "channel", "tunnel_channel"),
                  "message", "tunnel_message"),
                  "order_channel", "orders_channel"),
                  "order_message", "orders_message")
        i2 == IF "facilities" \in DOMAIN i1 THEN i1
              ELSE Put(i1, "facilities", EmptyDict)
        legacy == {"tunnel_channel", "tunnel_message"} \cap DOMAIN i2
        cfg0 == Get(i2["facilities"], "Legacy Facility", EmptyDict)
        cfg1 == [k \in (DOMAIN cfg0) \cup legacy |->
                    IF k \in legacy THEN i2[k] ELSE cfg0[k]]
        i3 == IF legacy = {} THEN i2
              ELSE Put([k \in (DOMAIN i2) \ legacy |-> i2[k]], "facilities",
                       Put(i2["facilities"], "Legacy Facility", cfg1))
    IN  IF info = EmptyDict
        THEN [info |-> info, changed |-> FALSE]
        ELSE [info |-> i3, changed |-> (i1 # info \/ legacy # {})]

(* normalize_all_facilities: [info, changed].                              *)
normalize_all_facilities(info, t) ==
    LET facs == Facilities(info)
        norm == [f \in DOMAIN facs |-> normalize_facility_record(f, facs[f], 0, t)]
    IN  IF facs = EmptyDict
        THEN [info |-> info, changed |-> FALSE]
        ELSE [info |-> Put(info, "facilities", norm), changed |-> norm # facs]

(* is_nested_tunnel_structure: every value of the document holds a dict   *)
(* under "tunnels".  A nested document is a sequence of [name, tunnels]    *)
(* entries, a flat one a dict tunnel name -> tdata.                        *)
is_nested_tunnel_structure(data) ==
    /\ data # <<>>
    /\ \A k \in DOMAIN data :
          /\ "tunnels" \in DOMAIN data[k]
          /\ IsDict(data[k].tunnels)

(* The check for the nested layout is left out.                            *)
migrate_flat_mutant_always_wrap(data) ==
    IF data = <<>>
    THEN [tunnels |-> data, saved |-> FALSE]
    ELSE [tunnels |-> <<[name |-> "Legacy Facility", tunnels |-> data]>>,
          saved |-> TRUE]

(* migrate_flat_tunnels_to_facilities on the loaded document: [tunnels,    *)
(* saved].                                                                 *)
migrate_flat_tunnels_to_facilities(data) ==
    IF is_nested_tunnel_structure(data) \/ data = <<>>
    THEN [tunnels |-> data, saved |-> FALSE]
    ELSE [tunnels |-> <<[name |-> "Legacy Facility", tunnels |-> data]>>,
          saved |-> TRUE]

(* orders.json after a write that did not end: it does not parse.          *)
TornFile == [torn |-> TRUE]

(* load_orders: the document of the file, or the default when the file     *)
(* does not parse.                                                         *)
load_orders(file) == IF "torn" \in DOMAIN file THEN NewOrders ELSE file

(* The process ends, between two awaits, and is started again: the module  *)
(* loads the five files and migrates the tunnels, and what the tasks and   *)
(* the handlers in progress held, with the log buffer, is gone.            *)
restart ==
    /\ tunnels' = migrate_flat_tunnels_to_facilities(data_file).tunnels
    /\ data_file' = IF migrate_flat_tunnels_to_facilities(data_file).saved
                    THEN tunnels' ELSE data_file
    /\ users' = user_file
    /\ dashboard_info' = dash_file
    /\ contributions' = contrib_file
    /\ orders_data' = load_orders(orders_file)
    /\ log_buffer' = EmptyDict
    /\ started' = FALSE
    /\ flush' = IdleFlush
    /\ refresh' = [s \in Slots |-> IdleSlot]
    /\ war' = IdleWar
    /\ weekly' = IdleWeekly
    /\ History("restart")
    /\ UNCHANGED <<user_file, dash_file, orders_file, contrib_file, now, messages,
                   next_msg, log_lines, next_tick, archives, issued, paginator,
                   caller, request, recorded, emitted>>

(* The process ends while save_orders of order_create writes orders.json,  *)
(* and is started again: the file is left torn, and the order that was     *)
(* created is in neither document.                                         *)
order_create_crash(user, authorized, quantity) ==
    /\ authorized
    /\ orders_data.next_id <= MaxOrderId
    /\ orders_file' = TornFile
    /\ orders_data' = load_orders(TornFile)
    /\ tunnels' = migrate_flat_tunnels_to_facilities(data_file).tunnels
    /\ data_file' = IF migrate_flat_tunnels_to_facilities(data_file).saved
                    THEN tunnels' ELSE data_file
    /\ users' = user_file
    /\ dashboard_info' = dash_file
    /\ contributions' = contrib_file
    /\ log_buffer' = EmptyDict
    /\ started' = FALSE
    /\ flush' = IdleFlush
    /\ refresh' = [s \in Slots |-> IdleSlot]
    /\ war' = IdleWar
    /\ weekly' = IdleWeekly
    /\ caller' = user
    /\ request' = [quantity |-> quantity]
    /\ History("order_create_crash")
    /\ UNCHANGED <<user_file, dash_file, contrib_file, now, messages, next_msg,
                   log_lines, next_tick, archives, issued, paginator, recorded,
                   emitted>>

(* The bot is stopped, tunnels.json and dashboard.json are replaced by the *)
(* documents tdoc and ddoc that an earlier version wrote, and the bot is   *)
(* started: the module loads the files and migrates the tunnels.           *)
(* pre_tunnels is the document as it was loaded.                           *)
module_load(tdoc, ddoc) ==
    /\ tunnels' = migrate_flat_tunnels_to_facilities(tdoc).tunnels
    /\ data_file' = tunnels'
    /\ dashboard_info' = ddoc
    /\ dash_file' = ddoc
    /\ users' = user_file
    /\ contributions' = contrib_file
    /\ orders_data' = load_orders(orders_file)
    /\ log_buffer' = EmptyDict
    /\ started' = FALSE
    /\ flush' = IdleFlush
    /\ refresh' = [s \in Slots |-> IdleSlot]
    /\ war' = IdleWar
    /\ weekly' = IdleWeekly
    /\ op' = "module_load"
    /\ pre_tunnels' = tdoc
    /\ UNCHANGED <<user_file, orders_file, contrib_file, now, messages, next_msg,
                   log_lines, next_tick, archives, issued, paginator, caller,
                   request, recorded, emitted>>

(* on_ready.  The loops start once; a later on_ready (a reconnect) runs    *)
(* the same steps and its start() calls raise.                             *)
on_ready ==
    LET n1 == normalize_dashboard_info(dashboard_info)
        n2 == normalize_all_facilities(n1.info, now)
    IN  /\ dashboard_info' = n2.info
        /\ dash_file' = IF n2.changed THEN n2.info
                        ELSE IF n1.changed THEN n1.info ELSE dash_file
        /\ tunnels' = catch_up_tunnels(tunnels, now)
        /\ data_file' = IF catch_up_updated(tunnels, now) THEN tunnels' ELSE data_file
        /\ started' = TRUE
        /\ next_tick' = IF started THEN next_tick ELSE now
        /\ History("on_ready")
        /\ UNCHANGED <<users, contributions, orders_data, log_buffer, user_file,
                       orders_file, contrib_file, now, messages, next_msg,
                       log_lines, archives, taskVars, quietVars, recorded, emitted>>

(* refresh_dashboard_loop: the decay, the save, and the refresh of the     *)
(* facilities up to the first await.  The next iteration waits for this    *)
(* one to end.                                                             *)
refresh_dashboard_loop ==
    /\ started
    /\ now >= next_tick
    /\ refresh["loop"].pc = "idle"
    /\ LET tn1 == tick_tunnels(tunnels)
           r == loop_next(dashboard_info, tn1,
                          SetToSeq(DOMAIN Facilities(dashboard_info)), now, FALSE)
       IN  /\ data_file' = tn1
           /\ tunnels' = r.tn
           /\ dashboard_info' = r.info
           /\ dash_file' = IF r.saved THEN r.info ELSE dash_file
           /\ refresh' = [refresh EXCEPT !["loop"] =
                  [r.slot EXCEPT !.size = Cardinality(DOMAIN Facilities(dashboard_info))]]
    /\ next_tick' = Max(next_tick + TickSeconds, now)
    /\ History("tick")
    /\ UNCHANGED <<users, contributions, orders_data, log_buffer, user_file,
                   orders_file, contrib_file, now, started, messages, next_msg,
                   log_lines, archives, flush, war, quietVars, recorded, emitted>>

----------------------------------------------------------------------------
(* The steps of a refresh_*_dashboard call of task s after an await.       *)

(* fetch_message returns, or raises NotFound.                              *)
RefreshFetch(s) ==
    /\ refresh[s].pc = "fetch"
    /\ refresh' = [refresh EXCEPT
          ![s].pc = IF refresh[s].msg \in DOMAIN messages THEN "edit" ELSE "send",
          ![s].embed = BuildEmbed(s)]
    /\ History("refresh_fetch")
    /\ UNCHANGED <<memVars, fileVars, envVars, flush, war, quietVars, recorded, emitted>>

(* msg.edit returns, or raises NotFound: the handler then sends.           *)
RefreshEdit(s) ==
    /\ refresh[s].pc = "edit"
    /\ IF refresh[s].msg \in DOMAIN messages
       THEN /\ messages' = [messages EXCEPT ![refresh[s].msg].content = refresh[s].embed]
            /\ Finish(s, dashboard_info, FALSE)
       ELSE /\ refresh' = [refresh EXCEPT ![s].pc = "send", ![s].embed = BuildEmbed(s)]
            /\ UNCHANGED <<messages, tunnels, dashboard_info, dash_file>>
            /\ NoContStep
    /\ History("refresh_edit")
    /\ UNCHANGED <<users, orders_data, data_file, user_file, orders_file, now,
                   started, next_msg, next_tick, archives, flush, war, quietVars>>

(* A variant of rebind that does not store the new handle.                 *)
rebind_mutant_keep_handle(info, sl, m) == info

(* The handle of a recreated dashboard, stored in the dicts the call holds.*)
rebind(info, sl, m) ==
    IF sl.kind = "msupp"
    THEN LET facs == IF sl.detached THEN sl.facs ELSE Facilities(info)
             cfg == Put(Put(Get(facs, sl.facility, EmptyDict),
                            "tunnel_channel", sl.chan), "tunnel_message", m)
         IN  Put(info, "facilities", Put(facs, sl.facility, cfg))
    ELSE Put(Put(info, "orders_channel", sl.chan), "orders_message", m)

(* channel.send returns the new message; the handle is stored and saved.   *)
RefreshSend(s) ==
    /\ refresh[s].pc = "send"
    /\ next_msg <= MaxMessages
    /\ messages' = Put(messages, next_msg,
                       [channel |-> refresh[s].chan, content |-> refresh[s].embed])
    /\ next_msg' = next_msg + 1
    /\ Finish(s, rebind(dashboard_info, refresh[s], next_msg), TRUE)
    /\ History("refresh_send")
    /\ UNCHANGED <<users, orders_data, data_file, user_file, orders_file, now,
                   started, next_tick, archives, flush, war, quietVars>>

(* The platform call fails with another error.  Around fetch and edit the  *)
(* handler logs it and returns; a failing send leaves the handler as an    *)
(* exception, which ends the loop task or the command.                     *)
RefreshFail(s) ==
    /\ refresh[s].pc \in {"fetch", "edit", "send"}
    /\ IF refresh[s].pc = "send"
       THEN /\ refresh' = [refresh EXCEPT ![s] = IF s = "loop" THEN DeadSlot ELSE IdleSlot]
            /\ UNCHANGED <<tunnels, dashboard_info, dash_file>>
            /\ NoContStep
       ELSE Finish(s, dashboard_info, FALSE)
    /\ History("refresh_fail")
    /\ UNCHANGED <<users, orders_data, data_file, user_file, orders_file, now,
                   started, messages, next_msg, next_tick, archives, flush, war,
                   quietVars>>

----------------------------------------------------------------------------
(* Facility and tunnel commands.  officer / authorized is the role check,  *)
(* resolved by the caller.                                                 *)

MaxTotal == 12000

NewTunnel(total, rate) ==
    [total_supplies |-> Units(total), usage_rate |-> rate,
     location |-> "Unknown", last_updated |-> NoTime]

(* /msupp_dashboard: refresh the facility bound to the channel, or bind a  *)
(* new facility to it (MsuppDashboardModal.on_submit).                     *)
msupp_dashboard(ch, officer, fname, user) ==
    /\ refresh["cmd"].pc = "idle"
    /\ LET existing == get_facility_for_channel(dashboard_info, ch)
       IN  IF ~officer
           THEN UNCHANGED <<tunnels, dashboard_info, dash_file, refresh, messages,
                            next_msg, contributions, contrib_file, log_buffer,
                            log_lines, recorded, emitted>>
           ELSE IF existing # NoFacility
           THEN /\ CmdRefresh(tunnels, "msupp", existing, NoCont)
                /\ UNCHANGED <<messages, next_msg>>
           ELSE LET tn1 == get_facility_record(tunnels, fname)
                    cfg == normalize_facility_record(
                               fname,
                               Put(Put(EmptyDict, "tunnel_channel", ch),
                                   "tunnel_message", next_msg),
                               user, now)
                IN  /\ next_msg <= MaxMessages
                    /\ tunnels' = tn1
                    /\ messages' = Put(messages, next_msg,
                           [channel |-> ch,
                            content |-> build_page_embed(
                                            fname, get_facility_tunnels(tn1, fname))])
                    /\ next_msg' = next_msg + 1
                    /\ dashboard_info' = Put(dashboard_info, "facilities",
                           Put(Facilities(dashboard_info), fname, cfg))
                    /\ dash_file' = dashboard_info'
                    /\ UNCHANGED refresh
                    /\ NoContStep
    /\ History("msupp_dashboard")
    /\ UNCHANGED <<users, orders_data, data_file, user_file, orders_file, now,
                   started, next_tick, archives, flush, war, quietVars>>

(* The facility /addtunnel adds to.                                        *)
addtunnel_facility(info, tn, ch) ==
    LET bound == get_facility_for_channel(info, ch)
    IN  IF bound # NoFacility THEN bound
        ELSE IF tn # <<>> THEN tn[1].name
        ELSE ChannelName(ch)

addtunnel(ch, officer, user, name, total, rate) ==
    /\ refresh["cmd"].pc = "idle"
    /\ request' = [name |-> name, total |-> total, rate |-> rate, officer |-> officer]
    /\ LET f == addtunnel_facility(dashboard_info, tunnels, ch)
           tn1 == get_facility_record(tunnels, f)
           tn2 == SetTunnel(tn1, f, name, NewTunnel(total, rate))
           facs == Facilities(dashboard_info)
           cfg == Get(facs, f, EmptyDict)
       IN  IF ~officer
           THEN /\ History("addtunnel_denied")
                /\ UNCHANGED <<tunnels, data_file, dashboard_info, dash_file, refresh,
                               messages, next_msg, contributions, contrib_file,
                               log_buffer, log_lines, recorded, emitted>>
           ELSE IF name \in DOMAIN get_facility_tunnels(tn1, f)
           THEN /\ History("addtunnel_refused")
                /\ tunnels' = tn1
                /\ UNCHANGED <<data_file, dashboard_info, dash_file, refresh, messages,
                               next_msg, contributions, contrib_file, log_buffer,
                               log_lines, recorded, emitted>>
           ELSE IF cfg = EmptyDict \/ Get(cfg, "tunnel_message", 0) = 0
           THEN /\ History("addtunnel")
                /\ next_msg <= MaxMessages
                /\ tunnels' = tn2
                /\ data_file' = tn2
                /\ messages' = Put(messages, next_msg,
                       [channel |-> ch,
                        content |-> build_page_embed(f, get_facility_tunnels(tn2, f))])
                /\ next_msg' = next_msg + 1
                /\ dashboard_info' = Put(dashboard_info, "facilities",
                       Put(facs, f, Put(Put(EmptyDict, "tunnel_channel", ch),
                                        "tunnel_message", next_msg)))
                /\ dash_file' = dashboard_info'
                /\ UNCHANGED refresh
                /\ NoContStep
           ELSE /\ History("addtunnel")
                /\ data_file' = tn2
                /\ UNCHANGED <<messages, next_msg, contributions, contrib_file>>
                /\ LET st == log_action(dashboard_info, LogState, user,
                                        "added new tunnel", <<f, name>>, total, now)
                       b == begin_msupp(dashboard_info, tn2, f, now)
                   IN  /\ SetLogState(st)
                       /\ dashboard_info' = b.info
                       /\ dash_file' = IF b.saved THEN b.info ELSE dash_file
                       /\ tunnels' = b.tn
                       /\ refresh' = [refresh EXCEPT !["cmd"] =
                              IF b.outcome = "fetch"
                              THEN FetchSlot(b, "msupp", f, <<>>, NoCont)
                              ELSE IdleSlot]
    /\ UNCHANGED <<users, orders_data, user_file, orders_file, now, started,
                   next_tick, archives, flush, war, tunnelQuiet>>

(* The amount replaces the total that another handler has just written.   *)
add_amount_mutant_assign(td, amount) == [td EXCEPT !.total_supplies = Units(amount)]

(* tdata["total_supplies"] = tdata.get("total_supplies", 0) + amount.       *)
add_amount(td, amount) == [td EXCEPT !.total_supplies = @ + Units(amount)]

(* /addsupplies, handled as task s.  The contribution and the log entry    *)
(* are written after the dashboard refresh has returned.                   *)
addsupplies_in(s, ch, user, name, amount) ==
    /\ refresh[s].pc = "idle"
    /\ request' = [name |-> name, amount |-> amount, user |-> user]
    /\ LET bound == get_facility_for_channel(dashboard_info, ch)
           tn1 == IF bound # NoFacility
                  THEN get_facility_record(tunnels, bound) ELSE tunnels
           f == IF bound # NoFacility THEN bound ELSE find_tunnel(tn1, name)
           found == /\ f # NoFacility
                    /\ name \in DOMAIN get_facility_tunnels(tn1, f)
       IN  IF ~found
           THEN /\ History("addsupplies_refused")
                /\ tunnels' = tn1
                /\ UNCHANGED <<users, data_file, user_file, dashboard_info, dash_file,
                               refresh, contributions, contrib_file, log_buffer,
                               log_lines, recorded, emitted>>
           ELSE LET td == get_facility_tunnels(tn1, f)[name]
                    tn2 == SetTunnel(tn1, f, name, add_amount(td, amount))
                IN  /\ History("addsupplies")
                    /\ td.total_supplies + Units(amount) <= Units(MaxTotal)
                    /\ td.total_supplies + Units(amount) >= -Units(MaxTotal)
                    /\ Len(Get(contributions, user,
                               [total_supplies |-> 0, actions |-> <<>>]).actions)
                         < MaxEvents
                    /\ users' = Put(users, user, Get(users, user, 0) + amount)
                    /\ data_file' = tn2
                    /\ user_file' = users'
                    /\ SlotRefresh(s, tn2, "msupp", f,
                                   [name |-> "addsupplies", user |-> user,
                                    facility |-> f, tunnel |-> name,
                                    amount |-> amount])
    /\ UNCHANGED <<orders_data, orders_file, now, started, messages, next_msg,
                   next_tick, archives, flush, war, tunnelQuiet>>

addsupplies(ch, user, name, amount) == addsupplies_in("cmd", ch, user, name, amount)

(* The look-up /updatetunnel and /deletetunnel share with /addsupplies:    *)
(* the facility bound to the channel, else the first facility that holds   *)
(* the name.  tn is the ledger after get_facility_record.                  *)
resolve_tunnel(info, tn, ch, name) ==
    LET bound == get_facility_for_channel(info, ch)
        tn1 == IF bound # NoFacility THEN get_facility_record(tn, bound) ELSE tn
        f == IF bound # NoFacility THEN bound ELSE find_tunnel(tn1, name)
    IN  [tn |-> tn1, facility |-> f,
         found |-> /\ f # NoFacility
                   /\ name \in DOMAIN get_facility_tunnels(tn1, f)]

(* The three `if ... is not None` assignments of /updatetunnel; fields     *)
(* holds the optional arguments that were given.                           *)
update_tunnel(td, fields) ==
    [td EXCEPT
        !.total_supplies = IF "supplies" \in DOMAIN fields
                           THEN Units(fields["supplies"]) ELSE @,
        !.usage_rate = IF "usage_rate" \in DOMAIN fields
                       THEN fields["usage_rate"] ELSE @,
        !.location = IF "location" \in DOMAIN fields THEN fields["location"] ELSE @]

TunnelNoop ==
    UNCHANGED <<data_file, dashboard_info, dash_file, refresh, contributions,
                contrib_file, log_buffer, log_lines, recorded, emitted>>

TunnelFrame ==
    UNCHANGED <<users, user_file, orders_data, orders_file, now, started, messages,
                next_msg, next_tick, archives, flush, war, tunnelQuiet>>

(* /updatetunnel.  The log entry is written after the dashboard refresh    *)
(* has returned.                                                           *)
updatetunnel(ch, officer, user, name, fields) ==
    /\ refresh["cmd"].pc = "idle"
    /\ request' = [name |-> name, fields |-> fields, officer |-> officer]
    /\ LET r == resolve_tunnel(dashboard_info, tunnels, ch, name)
       IN  IF ~officer
           THEN /\ History("updatetunnel_denied")
                /\ UNCHANGED tunnels
                /\ TunnelNoop
           ELSE IF ~r.found
           THEN /\ History("updatetunnel_refused")
                /\ tunnels' = r.tn
                /\ TunnelNoop
           ELSE LET td == get_facility_tunnels(r.tn, r.facility)[name]
                    tn2 == SetTunnel(r.tn, r.facility, name, update_tunnel(td, fields))
                IN  /\ History("updatetunnel")
                    /\ data_file' = tn2
                    /\ CmdRefresh(tn2, "msupp", r.facility,
                                  [name |-> "updated tunnel", user |-> user,
                                   facility |-> r.facility, tunnel |-> name,
                                   amount |-> 0])
    /\ TunnelFrame

(* facility_record["tunnels"].pop(name, None): the ledger after it.        *)
delete_tunnel(tn, f, name) ==
    [tn EXCEPT ![FacIndex(tn, f)].tunnels = Remove(@, name)]

(* /deletetunnel.                                                          *)
deletetunnel(ch, officer, user, name) ==
    /\ refresh["cmd"].pc = "idle"
    /\ request' = [name |-> name, officer |-> officer]
    /\ LET r == resolve_tunnel(dashboard_info, tunnels, ch, name)
       IN  IF ~officer
           THEN /\ History("deletetunnel_denied")
                /\ UNCHANGED tunnels
                /\ TunnelNoop
           ELSE IF ~r.found
           THEN /\ History("deletetunnel_refused")
                /\ tunnels' = r.tn
                /\ TunnelNoop
           ELSE LET tn2 == delete_tunnel(r.tn, r.facility, name)
                IN  /\ History("deletetunnel")
                    /\ data_file' = tn2
                    /\ CmdRefresh(tn2, "msupp", r.facility,
                                  [name |-> "deleted tunnel", user |-> user,
                                   facility |-> r.facility, tunnel |-> name,
                                   amount |-> 0])
    /\ TunnelFrame

(* What the quick-add callbacks and the stack modal do once the tunnel is  *)
(* found and the two totals are set: the two saves, log_contribution,      *)
(* log_action, and refresh_dashboard up to its first await.                *)
AddTail(s, user, f, name, tn2, users1, action, amount) ==
    LET c1 == log_contribution(contributions, user, action, amount, name, now)
        st == log_action(dashboard_info, LogState, user, "added supplies",
                         <<f, name>>, amount, now)
        b == begin_msupp(dashboard_info, tn2, f, now)
    IN  /\ Len(Get(contributions, user,
                   [total_supplies |-> 0, actions |-> <<>>]).actions) < MaxEvents
        /\ users' = users1
        /\ data_file' = tn2
        /\ user_file' = users1
        /\ contributions' = c1
        /\ contrib_file' = c1
        /\ SetLogState(st)
        /\ dashboard_info' = b.info
        /\ dash_file' = IF b.saved THEN b.info ELSE dash_file
        /\ tunnels' = b.tn
        /\ refresh' = [refresh EXCEPT ![s] =
               IF b.outcome = "fetch"
               THEN FetchSlot(b, "msupp", f, <<>>, NoCont) ELSE IdleSlot]

AddFrame ==
    UNCHANGED <<orders_data, orders_file, now, started, messages, next_msg,
                next_tick, archives, flush, war, tunnelQuiet>>

(* dunne_callback and Stowheel_callback of TunnelButton, handled as task   *)
(* s: amount is SUPPLY_INCREMENT_Dunne or SUPPLY_INCREMENT_Stowheel.  The  *)
(* user's total is raised before the tunnel is looked for.                 *)
quick_add(s, ch, user, name, amount) ==
    /\ refresh[s].pc = "idle"
    /\ request' = [name |-> name, amount |-> amount, user |-> user]
    /\ Get(users, user, 0) + amount <= MaxTotal
    /\ LET users1 == Put(users, user, Get(users, user, 0) + amount)
           r == resolve_tunnel(dashboard_info, tunnels, ch, name)
       IN  IF ~r.found
           THEN /\ History("quick_add_refused")
                /\ users' = users1
                /\ tunnels' = r.tn
                /\ UNCHANGED user_file
                /\ TunnelNoop
           ELSE LET td == get_facility_tunnels(r.tn, r.facility)[name]
                IN  /\ History("quick_add")
                    /\ td.total_supplies + Units(amount) <= Units(MaxTotal)
                    /\ AddTail(s, user, r.facility, name,
                               SetTunnel(r.tn, r.facility, name, add_amount(td, amount)),
                               users1, "1500 (Done)", amount)
    /\ AddFrame

(* The supplies of a stack.                                                *)
StackSize == 100

(* StackSubmitModal.on_submit, handled as task s.                          *)
stack_submit(s, ch, user, name, stacks) ==
    /\ refresh[s].pc = "idle"
    /\ request' = [name |-> name, amount |-> stacks * StackSize, user |-> user]
    /\ LET amount == stacks * StackSize
           r == resolve_tunnel(dashboard_info, tunnels, ch, name)
       IN  IF ~r.found
           THEN /\ History("stack_submit_refused")
                /\ tunnels' = r.tn
                /\ UNCHANGED <<users, user_file>>
                /\ TunnelNoop
           ELSE LET td == get_facility_tunnels(r.tn, r.facility)[name]
                IN  /\ History("stack_submit")
                    /\ td.total_supplies + Units(amount) <= Units(MaxTotal)
                    /\ td.total_supplies + Units(amount) >= -Units(MaxTotal)
                    /\ AddTail(s, user, r.facility, name,
                               SetTunnel(r.tn, r.facility, name, add_amount(td, amount)),
                               Put(users, user, Get(users, user, 0) + amount),
                               "submit stacks", amount)
    /\ AddFrame

(* users[user_id] = max(0, users[user_id] + amount).                       *)
corrected_total(total, amount) == Max(0, total + amount)

(* /adjust_contribution by the user `by` on the member's totals.  The      *)
(* correction is an event of the member's contribution record.             *)
adjust_contribution(officer, by, member, amount, reason) ==
    /\ request' = [member |-> member, amount |-> amount, officer |-> officer]
    /\ IF ~officer
       THEN /\ History("adjust_contribution_denied")
            /\ UNCHANGED <<users, user_file, contributions, contrib_file>>
            /\ NoLog
       ELSE LET total == corrected_total(Get(users, member, 0), amount)
                cur == Get(contributions, member,
                           [total_supplies |-> 0, actions |-> <<>>])
                c1 == Put(contributions, member,
                          [total_supplies |-> total,
                           actions |-> Append(cur.actions,
                               [timestamp |-> now, action |-> "correction",
                                amount |-> amount, reason |-> reason,
                                corrected_by |-> by])])
            IN  /\ History("adjust_contribution")
                /\ Len(cur.actions) < MaxEvents
                /\ total <= MaxTotal
                /\ users' = Put(users, member, total)
                /\ user_file' = users'
                /\ contributions' = c1
                /\ contrib_file' = c1
                /\ SetLogState(log_action(dashboard_info, LogState, by,
                                          "corrected contribution",
                                          <<"", ToString(member)>>, 0, now))
    /\ UNCHANGED <<tunnels, orders_data, dashboard_info, data_file, dash_file,
                   orders_file, now, started, messages, next_msg, next_tick,
                   archives, taskVars, tunnelQuiet>>

(* /setlogchannel.                                                         *)
setlogchannel(officer, ch) ==
    /\ IF officer
       THEN /\ dashboard_info' = Put(dashboard_info, "log_channel", ch)
            /\ dash_file' = dashboard_info'
       ELSE UNCHANGED <<dashboard_info, dash_file>>
    /\ History("setlogchannel")
    /\ UNCHANGED <<tunnels, users, contributions, orders_data, log_buffer, data_file,
                   user_file, orders_file, contrib_file, envVars, taskVars, quietVars,
                   recorded, emitted>>

----------------------------------------------------------------------------
(* The audit log and its batching.                                         *)

MaxRecorded == 3

(* A handler calls log_action.                                             *)
log_action_call(user, action, target, amount) ==
    /\ LET key == <<user, target, DateKey(now)>>
       IN  IF is_supply(action)
           THEN /\ Get(recorded, key, 0) + amount <= MaxRecorded
                /\ \/ key \in DOMAIN log_buffer
                   \/ Len(log_lines) + Cardinality(DOMAIN log_buffer) < MaxLines
           ELSE Len(log_lines) + Cardinality(DOMAIN log_buffer) < MaxLines
    /\ SetLogState(log_action(dashboard_info, LogState, user, action, target,
                              amount, now))
    /\ op' = IF is_supply(action) THEN "log_supply" ELSE "log_other"
    /\ pre_tunnels' = tunnels
    /\ UNCHANGED <<tunnels, users, contributions, orders_data, dashboard_info,
                   fileVars, now, started, messages, next_msg, next_tick, archives,
                   taskVars, quietVars>>

(* A variant of flush_next that does not read the entry's amount.          *)
RECURSIVE flush_mutant_zero_total(_, _, _)
flush_mutant_zero_total(info, buffer, todo) ==
    IF todo = <<>> THEN IdleFlush
    ELSE IF ~LogThread(info) THEN flush_mutant_zero_total(info, buffer, Tail(todo))
    ELSE [pc |-> "send", todo |-> Tail(todo), key |-> Head(todo), amount |-> 0]

(* flush_supply_logs from the entries todo on: entries without a log       *)
(* thread are skipped; the amount of the next one is read and its line is  *)
(* sent.  The order of the entries is one order of the buffer's keys.      *)
RECURSIVE flush_next(_, _, _)
flush_next(info, buffer, todo) ==
    IF todo = <<>> THEN IdleFlush
    ELSE IF ~LogThread(info) THEN flush_next(info, buffer, Tail(todo))
    ELSE [pc |-> "send", todo |-> Tail(todo), key |-> Head(todo),
          amount |-> buffer[Head(todo)]]

(* flush_log_buffer fires: flush_supply_logs runs to its first send.       *)
flush_log_buffer ==
    /\ started
    /\ flush.pc = "idle"
    /\ flush' = flush_next(dashboard_info, log_buffer, SetToSeq(DOMAIN log_buffer))
    /\ History("flush")
    /\ UNCHANGED <<memVars, fileVars, envVars, refresh, war, quietVars, recorded,
                   emitted>>

(* thread.send returns: the entry is deleted and the next one is taken.    *)
FlushSend ==
    /\ flush.pc = "send"
    /\ log_lines' = Append(log_lines,
                           format_log(flush.key[1], "added supplies to",
                                      flush.key[2], flush.amount))
    /\ log_buffer' = Remove(log_buffer, flush.key)
    /\ emitted' = Put(emitted, flush.key, Get(emitted, flush.key, 0) + flush.amount)
    /\ flush' = flush_next(dashboard_info, log_buffer', flush.todo)
    /\ History("flush_send")
    /\ UNCHANGED <<tunnels, users, contributions, orders_data, dashboard_info,
                   fileVars, now, started, messages, next_msg, next_tick, archives,
                   refresh, war, quietVars, recorded>>

(* thread.send raises: the exception ends the flush task.                  *)
FlushFail ==
    /\ flush.pc = "send"
    /\ flush' = [IdleFlush EXCEPT !.pc = "dead"]
    /\ History("flush_fail")
    /\ UNCHANGED <<memVars, fileVars, envVars, refresh, war, quietVars, recorded,
                   emitted>>

----------------------------------------------------------------------------
(* Orders.  authorized is has_authorized_role, officer the Officer role.   *)

OrderStatuses ==
    {"Order Placed", "Order Claimed", "Order Started", "In Progress",
     "Ready for Collection", "Complete"}

OrderTarget(id) == <<"#", ToString(id)>>

(* The common tail of the order handlers: save_orders, log_action, and     *)
(* refresh_order_dashboard up to its first await.                          *)
OrderTail(od, user, action, id, amount, refreshes) ==
    /\ orders_data' = od
    /\ orders_file' = od
    /\ LET st == log_action(dashboard_info, LogState, user, action,
                            OrderTarget(id), amount, now)
           b == begin_orders(dashboard_info, tunnels)
       IN  /\ SetLogState(st)
           /\ refresh' = [refresh EXCEPT !["cmd"] =
                  IF refreshes /\ b.outcome = "fetch"
                  THEN FetchSlot(b, "orders", NoFacility, <<>>, NoCont)
                  ELSE IdleSlot]

OrderFrame ==
    UNCHANGED <<tunnels, users, contributions, dashboard_info, data_file, user_file,
                dash_file, contrib_file, now, started, messages, next_msg, next_tick,
                archives, flush, war, paginator, weekly>>

OrderNoop ==
    UNCHANGED <<orders_data, orders_file, log_buffer, log_lines, recorded, emitted,
                refresh, issued>>

(* The order record order_create stores.                                   *)
new_order(user, quantity, t) ==
    [quantity |-> quantity, status |-> "Order Placed", requested_by |-> user,
     claimed_by |-> 0, timestamps |-> Put(EmptyDict, "created", t)]

(* The counter is left as it is.                                           *)
allocate_order_mutant_keep_counter(od, user, quantity, t) ==
    [next_id |-> od.next_id,
     orders |-> Put(od.orders, od.next_id, new_order(user, quantity, t))]

(* order_create takes orders_data["next_id"] as the id, raises the counter *)
(* and stores the order: the document after that.                          *)
allocate_order(od, user, quantity, t) ==
    [next_id |-> od.next_id + 1,
     orders |-> Put(od.orders, od.next_id, new_order(user, quantity, t))]

order_create(user, authorized, quantity) ==
    /\ refresh["cmd"].pc = "idle"
    /\ caller' = user
    /\ request' = [quantity |-> quantity]
    /\ IF ~authorized
       THEN /\ History("order_create_denied")
            /\ OrderNoop
       ELSE LET id == orders_data.next_id
            IN  /\ id <= MaxOrderId
                /\ History("order_create")
                /\ issued' = Append(issued, id)
                /\ OrderTail(allocate_order(orders_data, user, quantity, now),
                             user, "placed new order", id, quantity, TRUE)
    /\ OrderFrame

(* A variant of claim_order that leaves the status.                        *)
claim_order_mutant_keep_status(od, id, user, t) ==
    [od EXCEPT !.orders[id].claimed_by = user,
               !.orders[id].timestamps = Put(@, "claimed", t)]

(* The three assignments of claim_button: the order table after them.      *)
claim_order(od, id, user, t) ==
    [od EXCEPT !.orders[id].claimed_by = user,
               !.orders[id].status = "Order Claimed",
               !.orders[id].timestamps = Put(@, "claimed", t)]

(* SingleOrderView.claim_button.                                           *)
claim_button(user, authorized, id) ==
    /\ refresh["cmd"].pc = "idle"
    /\ caller' = user
    /\ request' = [id |-> id]
    /\ IF ~authorized \/ id \notin DOMAIN orders_data.orders
       THEN /\ History("claim_refused")
            /\ OrderNoop
       ELSE /\ History("claim")
            /\ UNCHANGED issued
            /\ OrderTail(claim_order(orders_data, id, user, now),
                         user, "claimed order", id, 0, TRUE)
    /\ OrderFrame

(* The options of OrderStatusSelect.  The callback takes the submitted     *)
(* value as it is.                                                         *)
SelectOptions == OrderStatuses

(* OrderStatusSelect.callback.                                             *)
status_select(user, id, new_status) ==
    /\ refresh["cmd"].pc = "idle"
    /\ caller' = user
    /\ request' = [id |-> id]
    /\ IF id \notin DOMAIN orders_data.orders
       THEN /\ History("status_refused")
            /\ OrderNoop
       ELSE /\ History("status")
            /\ UNCHANGED issued
            /\ OrderTail([orders_data EXCEPT
                              !.orders[id].status = new_status,
                              !.orders[id].timestamps = Put(@, "last_update", now)],
                         user, "updated order status", id, 0, TRUE)
    /\ OrderFrame

(* SingleOrderView.complete_button.                                        *)
complete_button(user, authorized, id) ==
    /\ refresh["cmd"].pc = "idle"
    /\ caller' = user
    /\ request' = [id |-> id]
    /\ IF ~authorized \/ id \notin DOMAIN orders_data.orders
       THEN /\ History("complete_refused")
            /\ OrderNoop
       ELSE /\ History("complete")
            /\ UNCHANGED issued
            /\ OrderTail([orders_data EXCEPT
                              !.orders[id].status = "Complete",
                              !.orders[id].timestamps = Put(@, "completed", now)],
                         user, "marked order complete", id, 0, TRUE)
    /\ OrderFrame

(* A variant of delete_order that gives the id back to the counter.        *)
delete_order_mutant_reuse_id(od, id) ==
    [next_id |-> id, orders |-> Remove(od.orders, id)]

(* orders_data["orders"].pop(order_id): the order table after it.          *)
delete_order(od, id) == [od EXCEPT !.orders = Remove(@, id)]

(* /order_delete, and SingleOrderView.delete_button (button: it refreshes  *)
(* the order dashboard, the command does not).                             *)
order_delete(user, officer, id, button) ==
    /\ refresh["cmd"].pc = "idle"
    /\ caller' = user
    /\ request' = [id |-> id, officer |-> officer]
    /\ IF ~officer \/ id \notin DOMAIN orders_data.orders
       THEN /\ History("delete_refused")
            /\ OrderNoop
       ELSE /\ History("order_delete")
            /\ UNCHANGED issued
            /\ OrderTail(delete_order(orders_data, id),
                         user, "deleted order", id, 0, button)
    /\ OrderFrame

(* /order_dashboard: refresh the bound dashboard, or create and bind one.  *)
order_dashboard(ch, officer) ==
    /\ refresh["cmd"].pc = "idle"
    /\ IF ~officer
       THEN UNCHANGED <<dashboard_info, dash_file, messages, next_msg, refresh, tunnels>>
       ELSE IF "orders_message" \in DOMAIN dashboard_info
       THEN /\ CmdRefresh(tunnels, "orders", NoFacility, NoCont)
            /\ UNCHANGED <<messages, next_msg>>
       ELSE /\ next_msg <= MaxMessages
            /\ messages' = Put(messages, next_msg,
                   [channel |-> ch, content |-> build_clickable_order_dashboard(orders_data)])
            /\ next_msg' = next_msg + 1
            /\ dashboard_info' = Put(Put(dashboard_info, "orders_channel", ch),
                                     "orders_message", next_msg)
            /\ dash_file' = dashboard_info'
            /\ UNCHANGED <<refresh, tunnels>>
    /\ IF officer /\ "orders_message" \in DOMAIN dashboard_info
       THEN TRUE ELSE NoContStep
    /\ History("order_dashboard")
    /\ UNCHANGED <<users, orders_data, data_file, user_file, orders_file, now,
                   started, next_tick, archives, flush, war, quietVars>>

----------------------------------------------------------------------------
(* /endwar: the archive, the closing of the facility dashboards, the wipe  *)
(* and the order dashboard, with the awaits between them.                  *)

MaxArchives == 1

tunnel_count(tn) == SumOver(1..Len(tn), [i \in 1..Len(tn) |-> Cardinality(DOMAIN tn[i].tunnels)])

Closable(info) ==
    {f \in DOMAIN Facilities(info) :
        /\ Get(Facilities(info)[f], "tunnel_channel", 0) # 0
        /\ Get(Facilities(info)[f], "tunnel_message", 0) # 0}

ClosedEmbed(f) == [kind |-> "closed", facility |-> f, pages |-> 0, rows |-> {}]

(* A variant of reset_users that forgets the users.                        *)
reset_users_mutant_clear(us) == EmptyDict

(* `for uid in users: users[uid] = 0`.                                     *)
reset_users(us) == [u \in DOMAIN us |-> 0]

(* Sections 3 to 5 of endwar, to the next await; w is what the handler     *)
(* holds.  A refresh in progress keeps the facilities dict it read.        *)
Wipe(w) ==
    /\ tunnels' = <<>>
    /\ data_file' = <<>>
    /\ dashboard_info' = Put(dashboard_info, "facilities", EmptyDict)
    /\ dash_file' = dashboard_info'
    /\ users' = reset_users(users)
    /\ user_file' = users'
    /\ contributions' = EmptyDict
    /\ contrib_file' = EmptyDict
    /\ orders_data' = NewOrders
    /\ orders_file' = NewOrders
    /\ refresh' = [s \in Slots |->
          IF refresh[s].pc \in {"fetch", "edit", "send"} /\ refresh[s].kind = "msupp"
             /\ ~refresh[s].detached
          THEN [refresh[s] EXCEPT !.detached = TRUE,
                                  !.facs = Facilities(dashboard_info)]
          ELSE refresh[s]]
    /\ IF {"orders_channel", "orders_message"} \subseteq DOMAIN dashboard_info
       THEN /\ war' = [w EXCEPT !.pc = "orders"]
            /\ NoLog
       ELSE /\ war' = IdleWar
            /\ SetLogState(log_action(dashboard_info, LogState, w.user, "ended the war",
                                      <<ToString(w.facility_count),
                                        ToString(w.tunnel_count)>>, 0, now))

(* The files of a bundle, in the order endwar writes them.                 *)
ArchiveFiles ==
    <<"tunnels.json", "dashboard.json", "orders.json", "users.json",
      "contributions.json", "war_summary.json", "war_report.md">>

(* What endwar writes to the file at position i.  orders.json is written   *)
(* from the orders file, the others from memory.                           *)
archive_content(i, tn, info, ofile, us, co) ==
    CASE i = 1 -> tn
      [] i = 2 -> info
      [] i = 3 -> ofile
      [] i = 4 -> us
      [] i = 5 -> co
      [] OTHER -> [facility_count |-> Len(tn), tunnel_count |-> tunnel_count(tn),
                   total_supplies |-> SumOver(DOMAIN us, us)]

(* A variant of write_archive in which a failed write does not end the     *)
(* handler.                                                                *)
write_archive_mutant_swallow(tn, info, ofile, us, co, fail) ==
    LET done == {i \in 1..Len(ArchiveFiles) :
                    \A j \in 1..i : ArchiveFiles[j] # fail}
    IN  [bundle |-> [f \in {ArchiveFiles[i] : i \in done} |->
                        archive_content(CHOOSE i \in done : ArchiveFiles[i] = f,
                                        tn, info, ofile, us, co)],
         ok |-> TRUE]

(* Section 1 of endwar: the bundle written, and whether every write        *)
(* returned.  fail names the file whose write raises ("" for none); the    *)
(* files before it are in the folder.                                      *)
write_archive(tn, info, ofile, us, co, fail) ==
    LET done == {i \in 1..Len(ArchiveFiles) :
                    \A j \in 1..i : ArchiveFiles[j] # fail}
    IN  [bundle |-> [f \in {ArchiveFiles[i] : i \in done} |->
                        archive_content(CHOOSE i \in done : ArchiveFiles[i] = f,
                                        tn, info, ofile, us, co)],
         ok |-> fail = ""]

(* /endwar to its first await after the archive.  fail = "mkdir": the      *)
(* archive folder cannot be created.  An exception of the archive section  *)
(* ends the handler.                                                       *)
endwar(user, officer, fail) ==
    /\ war.pc = "idle"
    /\ IF ~officer
       THEN /\ History("endwar_denied")
            /\ UNCHANGED <<memVars, fileVars, archives, refresh, war, log_lines,
                           recorded, emitted>>
       ELSE IF fail = "mkdir"
       THEN /\ History("endwar_archive_failed")
            /\ UNCHANGED <<memVars, fileVars, archives, refresh, war, log_lines,
                           recorded, emitted>>
       ELSE LET w == [pc |-> "closing", user |-> user,
                      size |-> Cardinality(DOMAIN Facilities(dashboard_info)),
                      facility_count |-> Len(tunnels),
                      tunnel_count |-> tunnel_count(tunnels)]
                a == write_archive(tunnels, dashboard_info, orders_file, users,
                                   contributions, fail)
            IN  /\ Len(archives) < MaxArchives
                /\ archives' = Append(archives, a.bundle)
                /\ IF ~a.ok
                   THEN /\ History("endwar_archive_failed")
                        /\ UNCHANGED <<memVars, fileVars, refresh, war, log_lines,
                                       recorded, emitted>>
                   ELSE IF Closable(dashboard_info) = {}
                   THEN /\ History("endwar_reset")
                        /\ Wipe(w)
                   ELSE /\ History("endwar")
                        /\ war' = w
                        /\ UNCHANGED <<memVars, fileVars, refresh, log_lines,
                                       recorded, emitted>>
    /\ UNCHANGED <<now, started, messages, next_msg, next_tick, flush, quietVars>>

(* The loop over the facility dashboards has edited the messages it found; *)
(* taking the next key raises when the dict has changed size, and the      *)
(* handler ends there.                                                     *)
endwar_close ==
    /\ war.pc = "closing"
    /\ messages' = [m \in DOMAIN messages |->
          IF \E f \in Closable(dashboard_info) :
                Facilities(dashboard_info)[f]["tunnel_message"] = m
          THEN [messages[m] EXCEPT !.content =
                   ClosedEmbed(CHOOSE f \in Closable(dashboard_info) :
                                  Facilities(dashboard_info)[f]["tunnel_message"] = m)]
          ELSE messages[m]]
    /\ IF Cardinality(DOMAIN Facilities(dashboard_info)) # war.size
       THEN /\ History("endwar_raised")
            /\ war' = IdleWar
            /\ UNCHANGED <<memVars, fileVars, refresh, log_lines, recorded, emitted>>
       ELSE /\ History("endwar_reset")
            /\ Wipe(war)
    /\ UNCHANGED <<now, started, next_msg, next_tick, archives, flush, quietVars>>

(* The order dashboard is edited if its message is found, and the end of   *)
(* the war is logged.                                                      *)
endwar_orders ==
    /\ war.pc = "orders"
    /\ LET m == Get(dashboard_info, "orders_message", 0)
       IN  messages' = IF m \in DOMAIN messages
                       THEN [messages EXCEPT ![m].content =
                                build_clickable_order_dashboard(orders_data)]
                       ELSE messages
    /\ war' = IdleWar
    /\ SetLogState(log_action(dashboard_info, LogState, war.user, "ended the war",
                              <<ToString(war.facility_count),
                                ToString(war.tunnel_count)>>, 0, now))
    /\ History("endwar_done")
    /\ UNCHANGED <<tunnels, users, contributions, orders_data, dashboard_info,
                   fileVars, now, started, next_msg, next_tick, archives, flush,
                   refresh, quietVars>>

----------------------------------------------------------------------------
(* weekly_leaderboard: a loop that fires at 12:00 UTC every day.  The      *)
(* model's clock starts on a Monday at 00:00 UTC.                          *)

NoonSeconds == 43200
ResetWeekday == 6

(* datetime.weekday() of day d: Monday is 0.                               *)
weekday(d) == d % 7

(* `for uid in list(users.keys()): users[uid] = 0`.                        *)
weekly_reset(us) == [u \in DOMAIN us |-> 0]

WeeklyFrame ==
    UNCHANGED <<tunnels, contributions, orders_data, dashboard_info, log_buffer,
                data_file, dash_file, orders_file, contrib_file, envVars, flush,
                refresh, war, issued, recorded, emitted, paginator, caller, request>>

(* The loop fires.  On another day than Sunday it returns.  channel: a     *)
(* leaderboard channel is found for the guild; the handler then fetches    *)
(* the top users and sends the leaderboard, and resets the totals after    *)
(* that.  Without a channel the guild is skipped and the totals are reset. *)
weekly_leaderboard(channel) ==
    /\ started
    /\ weekly.pc = "idle"
    /\ now % SecondsPerDay = NoonSeconds
    /\ weekly.day # DateKey(now)
    /\ IF weekday(DateKey(now)) # ResetWeekday
       THEN /\ weekly' = [pc |-> "idle", day |-> DateKey(now)]
            /\ History("weekly_skip")
            /\ UNCHANGED <<users, user_file>>
       ELSE IF channel
       THEN /\ weekly' = [pc |-> "post", day |-> DateKey(now)]
            /\ History("weekly")
            /\ UNCHANGED <<users, user_file>>
       ELSE /\ weekly' = [pc |-> "idle", day |-> DateKey(now)]
            /\ History("weekly_reset")
            /\ users' = weekly_reset(users)
            /\ user_file' = users'
    /\ WeeklyFrame

(* fetch_user and channel.send have returned: the totals are reset.        *)
WeeklyPost ==
    /\ weekly.pc = "post"
    /\ weekly' = [weekly EXCEPT !.pc = "idle"]
    /\ History("weekly_reset")
    /\ users' = weekly_reset(users)
    /\ user_file' = users'
    /\ WeeklyFrame

(* fetch_user or channel.send raises: the exception ends the loop task.    *)
WeeklyFail ==
    /\ weekly.pc = "post"
    /\ weekly' = [weekly EXCEPT !.pc = "dead"]
    /\ History("weekly_failed")
    /\ UNCHANGED <<users, user_file>>
    /\ WeeklyFrame

----------------------------------------------------------------------------
(* The decay engine: a ledger loaded from tunnels.json with one facility,  *)
(* no dashboard bound, and supplies added between the decay steps.         *)

DecayTunnels ==
    <<[name |-> "A",
       tunnels |-> Put(Put(EmptyDict,
           "T1", [total_supplies |-> Units(10000), usage_rate |-> 500,
                  location |-> "Unknown", last_updated |-> 0]),
           "T2", [total_supplies |-> Units(10), usage_rate |-> 500,
                  location |-> "Unknown", last_updated |-> NoTime])]>>

DecayAmounts == {-6000, 6000}

InitDecay == InitWith(DecayTunnels, EmptyDict, NewOrders, EmptyDict)

DecayTimes == {14400, 122400}

NextDecay ==
    \/ \E t \in DecayTimes : Advance(t)
    \/ on_ready
    \/ refresh_dashboard_loop
    \/ \E amount \in DecayAmounts : addsupplies(1, 11, "T2", amount)

SpecDecay == InitDecay /\ [][NextDecay]_vars

(* The tunnels both ledgers hold, as <<facility index, name>>.             *)
Kept(tn1, tn2) ==
    {x \in (1..Len(tn1)) \X TunnelInputs :
        /\ x[1] <= Len(tn2)
        /\ x[2] \in DOMAIN tn1[x[1]].tunnels
        /\ x[2] \in DOMAIN tn2[x[1]].tunnels}

(* C1: every decay application (the start-up catch-up or a periodic tick)  *)
(* leaves each tunnel's total_supplies at most what it was, and at least 0.*)
C1_DecayOnlyLowers ==
    [][op' \in {"on_ready", "tick"} =>
        \A x \in Kept(tunnels, tunnels') :
            /\ tunnels'[x[1]].tunnels[x[2]].total_supplies
                  <= tunnels[x[1]].tunnels[x[2]].total_supplies
            /\ tunnels'[x[1]].tunnels[x[2]].total_supplies >= 0]_vars

(* ApplyDecay as the specification states it.                              *)
C2_ApplyDecay(td, t) ==
    IF td.last_updated >= 0 /\ t - td.last_updated > 0 /\ td.usage_rate > 0
    THEN [td EXCEPT !.total_supplies =
                       IF @ - td.usage_rate * (t - td.last_updated) > 0
                       THEN @ - td.usage_rate * (t - td.last_updated) ELSE 0,
                    !.last_updated = t]
    ELSE [td EXCEPT !.last_updated = IF @ >= 0 THEN @ ELSE t]

(* C2: the start-up catch-up computes the reference result for every       *)
(* tunnel: with elapsed time > 0 and usage_rate > 0 the total becomes      *)
(* max(0, total - usage_rate * elapsed) and last_updated becomes now;      *)
(* otherwise the total is unchanged.                                       *)
C2_CatchUpIsReference ==
    [][op' = "on_ready" =>
        /\ Len(tunnels') = Len(tunnels)
        /\ \A i \in 1..Len(tunnels) :
              /\ DOMAIN tunnels'[i].tunnels = DOMAIN tunnels[i].tunnels
              /\ \A n \in DOMAIN tunnels[i].tunnels :
                    tunnels'[i].tunnels[n] = C2_ApplyDecay(tunnels[i].tunnels[n], now)]_vars

(* 10000 supplies at rate 500 were 8000 after 4 h, and are 0 after a       *)
(* further 30 h.                                                           *)
C2_Witness ==
    /\ op = "on_ready"
    /\ now = 122400
    /\ pre_tunnels[1].tunnels["T1"].total_supplies = Units(8000)
    /\ pre_tunnels[1].tunnels["T1"].last_updated = 14400
    /\ tunnels[1].tunnels["T1"].total_supplies = 0
    /\ tunnels[1].tunnels["T1"].last_updated = 122400

(* C3: applying the catch-up twice with the same now gives the state one   *)
(* application gives.                                                      *)
C3_Idempotent ==
    \A t \in TimePoints :
        catch_up_tunnels(catch_up_tunnels(tunnels, t), t) = catch_up_tunnels(tunnels, t)

C3_Witness ==
    /\ op = "on_ready"
    /\ \E n \in DOMAIN tunnels[1].tunnels :
          /\ n \in DOMAIN pre_tunnels[1].tunnels
          /\ tunnels[1].tunnels[n].total_supplies
                < pre_tunnels[1].tunnels[n].total_supplies
          /\ tunnels[1].tunnels[n].total_supplies > 0
    /\ catch_up_tunnels(tunnels, now) = tunnels

SplitSeconds == {0, 120, 3600, 14400}

----------------------------------------------------------------------------
(* Facilities and their tunnels: dashboards are bound to channels and      *)
(* tunnels are added from the channels.                                    *)

NextFacility ==
    \/ \E ch \in {1, 2}, officer \in BOOLEAN, fname \in FacilityInputs :
          msupp_dashboard(ch, officer, fname, 11)
    \/ \E ch \in {1, 2}, officer \in BOOLEAN, name \in TunnelInputs :
          addtunnel(ch, officer, 11, name, 100, 500)
    \/ RefreshFetch("cmd")
    \/ RefreshEdit("cmd")
    \/ RefreshFail("cmd")

SpecFacility == Init /\ [][NextFacility]_vars

(* The facilities that hold a tunnel of this name.                         *)
Owners(tn, name) == {i \in 1..Len(tn) : name \in DOMAIN tn[i].tunnels}

(* C5: no tunnel name occurs in more than one facility, addtunnel having   *)
(* refused every name that exists in any facility.                         *)
C5_NameInOneFacility ==
    \A name \in TunnelInputs : Cardinality(Owners(tunnels, name)) <= 1

----------------------------------------------------------------------------
(* Orders over a war's end.                                                *)

NextOrders ==
    \/ \E authorized \in BOOLEAN : order_create(11, authorized, 5)
    \/ claim_button(12, TRUE, 1)
    \/ status_select(11, 1, "In Progress")
    \/ complete_button(12, TRUE, 1)
    \/ \E officer \in BOOLEAN, id \in 1..MaxOrderId :
          order_delete(11, officer, id, FALSE)
    \/ \E officer \in BOOLEAN : endwar(11, officer, "")

SpecOrders == Init /\ [][NextOrders]_vars

(* C6: every id order_create returns is greater than every id it returned  *)
(* before, over creates, claims, status changes, deletes and war ends.     *)
C6_IdsIncrease ==
    \A i \in DOMAIN issued : \A j \in DOMAIN issued : i < j => issued[i] < issued[j]

----------------------------------------------------------------------------
(* The audit log: handlers record actions while the flush task runs.       *)

LogActions == {"Added Supplies", "updated tunnel"}

LogTargets == {<<"A", "T1">>, <<"A", "T2">>}

LogAmounts == {1, 2}

LogTimes == {122400}

NextLog ==
    \/ setlogchannel(TRUE, 3)
    \/ on_ready
    \/ \E t \in LogTimes : Advance(t)
    \/ \E action \in LogActions, target \in LogTargets, amount \in LogAmounts :
          log_action_call(11, action, target, amount)
    \/ flush_log_buffer
    \/ FlushSend
    \/ FlushFail

SpecLog == Init /\ [][NextLog]_vars

(* The same, with no log_action call while a flush is waiting for its send.*)
NextLogQuiet ==
    \/ setlogchannel(TRUE, 3)
    \/ on_ready
    \/ \E t \in LogTimes : Advance(t)
    \/ /\ flush.pc # "send"
       /\ \E action \in LogActions, target \in LogTargets, amount \in LogAmounts :
             log_action_call(11, action, target, amount)
    \/ flush_log_buffer
    \/ FlushSend
    \/ FlushFail

SpecLogQuiet == Init /\ [][NextLogQuiet]_vars

(* C7: with the supply records of a key made before the flush, the flush   *)
(* emits exactly one line for the key, carrying the sum of the amounts     *)
(* recorded for it and not emitted before, and touches no other key, which *)
(* gets a line of its own.                                                 *)
C7_OneLineWithTotal ==
    [][op' = "flush_send" =>
        /\ log_lines' = Append(log_lines,
               [actor |-> flush.key[1], action |-> "added supplies to",
                target |-> flush.key[2],
                amount |-> recorded[flush.key] - Get(emitted, flush.key, 0)])
        /\ flush.key \notin DOMAIN log_buffer'
        /\ \A k \in DOMAIN log_buffer \ {flush.key} :
              k \in DOMAIN log_buffer' /\ log_buffer'[k] = log_buffer[k]]_vars

(* Two keys flushed: one with the total 3 of several records, one with 1.  *)
C7_Witness ==
    /\ op = "flush_send"
    /\ log_buffer = EmptyDict
    /\ Len(log_lines) = 2
    /\ \E k1 \in DOMAIN emitted, k2 \in DOMAIN emitted :
          /\ k1 # k2
          /\ emitted[k1] = 3 /\ recorded[k1] = 3
          /\ emitted[k2] = 1 /\ recorded[k2] = 1
          /\ \E i \in 1..2 : log_lines[i].target = k1[2] /\ log_lines[i].amount = 3
          /\ \E i \in 1..2 : log_lines[i].target = k2[2] /\ log_lines[i].amount = 1

(* C8: for every key, the totals of the lines emitted for it plus the      *)
(* amount buffered for it equal the amounts recorded for it, also when a   *)
(* record arrives while a flush waits for its send.                        *)
C8_NothingLostOrDoubled ==
    \A k \in DOMAIN recorded :
        Get(emitted, k, 0) + Get(log_buffer, k, 0) = recorded[k]

----------------------------------------------------------------------------
(* The dashboards: they are bound, their messages get deleted, and the     *)
(* loop and the commands refresh them.                                     *)

NextDash ==
    \/ \E ch \in {1, 2} : msupp_dashboard(ch, TRUE, ChannelName(ch), 11)
    \/ order_dashboard(3, TRUE)
    \/ \E m \in 1..MaxMessages : DeleteMessage(m)
    \/ on_ready
    \/ refresh_dashboard_loop
    \/ \E s \in Slots : RefreshFetch(s)
    \/ \E s \in Slots : RefreshEdit(s)
    \/ \E s \in Slots : RefreshSend(s)
    \/ \E s \in Slots : RefreshFail(s)

SpecDash == Init /\ [][NextDash]_vars

(* The handle the call of slot sl reconciles, as stored in info.           *)
StoredHandle(info, sl) ==
    IF sl.kind = "msupp"
    THEN <<Get(Get(Facilities(info), sl.facility, EmptyDict), "tunnel_channel", 0),
           Get(Get(Facilities(info), sl.facility, EmptyDict), "tunnel_message", 0)>>
    ELSE <<Get(info, "orders_channel", 0), Get(info, "orders_message", 0)>>

(* C10: a refresh that finds the message edits it, creates none and leaves *)
(* the stored handle; one that finds it gone creates exactly one message   *)
(* with the dashboard, stores its handle and has written dashboard.json    *)
(* when it returns.                                                        *)
C10_Reconcile ==
    [][\A s \in Slots :
        /\ (op' = "refresh_edit" /\ refresh[s].pc = "edit" /\ refresh'[s] # refresh[s]
            /\ refresh[s].msg \in DOMAIN messages) =>
              /\ DOMAIN messages' = DOMAIN messages
              /\ messages'[refresh[s].msg].content = refresh[s].embed
              /\ StoredHandle(dashboard_info', refresh[s])
                    = StoredHandle(dashboard_info, refresh[s])
        /\ (op' = "refresh_send" /\ refresh[s].pc = "send" /\ refresh'[s] # refresh[s]) =>
              /\ Cardinality(DOMAIN messages' \ DOMAIN messages) = 1
              /\ DOMAIN messages \subseteq DOMAIN messages'
              /\ \A m \in DOMAIN messages' \ DOMAIN messages :
                    /\ messages'[m].content = refresh[s].embed
                    /\ StoredHandle(dashboard_info', refresh[s]) = <<refresh[s].chan, m>>
              /\ dash_file' = dashboard_info']_vars

(* A deleted facility dashboard has just been created again.               *)
C10_Witness ==
    /\ op = "refresh_send"
    /\ dash_file = dashboard_info
    /\ \E f \in DOMAIN Facilities(dashboard_info) :
          LET m == Get(Facilities(dashboard_info)[f], "tunnel_message", 0)
          IN  /\ m = next_msg - 1
              /\ m \in DOMAIN messages
              /\ messages[m].content.kind = "msupp"
              /\ 1 \notin DOMAIN messages

----------------------------------------------------------------------------
(* Rendering: facility "A" is bound to channel 1 with its dashboard        *)
(* posted, and holds two tunnels; supplies are added and the tick decays   *)
(* them while the dashboard is deleted and reconciled.                     *)

RenderTunnels ==
    <<[name |-> "A",
       tunnels |-> Put(Put(EmptyDict,
           "T1", [total_supplies |-> Units(100), usage_rate |-> 500,
                  location |-> "Unknown", last_updated |-> 0]),
           "T2", [total_supplies |-> Units(4000), usage_rate |-> 0,
                  location |-> "Unknown", last_updated |-> 0])]>>

RenderInfo ==
    Put(EmptyDict, "facilities",
        Put(EmptyDict, "A",
            normalize_facility_record(
                "A", Put(Put(EmptyDict, "tunnel_channel", 1), "tunnel_message", 1),
                11, 0)))

InitRender ==
    InitWith(RenderTunnels, RenderInfo, NewOrders,
             Put(EmptyDict, 1,
                 [channel |-> 1,
                  content |-> build_page_embed(
                                  "A", get_facility_tunnels(RenderTunnels, "A"))]))

NextRender ==
    \/ \E m \in 1..MaxMessages : DeleteMessage(m)
    \/ on_ready
    \/ refresh_dashboard_loop
    \/ addsupplies(1, 11, "T1", SUPPLY_INCREMENT_Dunne)
    \/ \E s \in Slots : RefreshFetch(s)
    \/ \E s \in Slots : RefreshEdit(s)
    \/ \E s \in Slots : RefreshSend(s)
    \/ \E s \in Slots : RefreshFail(s)

SpecRender == InitRender /\ [][NextRender]_vars

(* The rows a ledger's tunnels show: name, whole supplies, usage.          *)
LedgerRows(td) ==
    {[name |-> n, supplies |-> Trunc(td[n].total_supplies),
      usage |-> td[n].usage_rate] : n \in DOMAIN td}

(* C11: when a reconcile of a facility whose message is gone returns, and  *)
(* no other task has changed the facility's tunnels since the call began,  *)
(* the message the stored handle names exists and shows, for that          *)
(* facility, exactly the rows of the tunnels the call was given.           *)
C11_RowsConverge ==
    [][\A s \in Slots :
        (/\ op' = "refresh_send" /\ refresh[s].pc = "send"
         /\ refresh'[s] # refresh[s]
         /\ refresh[s].kind = "msupp"
         /\ refresh[s].facility \in FacilityKeys(tunnels)
         /\ refresh[s].snap = get_facility_tunnels(tunnels, refresh[s].facility)) =>
            LET h == StoredHandle(dashboard_info', refresh[s])
            IN  /\ h[2] \in DOMAIN messages' \ DOMAIN messages
                /\ messages'[h[2]].content.kind = "msupp"
                /\ messages'[h[2]].content.facility = refresh[s].facility
                /\ messages'[h[2]].content.rows = LedgerRows(refresh[s].snap)]_vars

(* A deleted dashboard has been created again after supplies were added    *)
(* and decayed: its rows are those of the ledger, and differ from the      *)
(* rows first posted.                                                      *)
C11_Witness ==
    /\ op = "refresh_send"
    /\ 1 \notin DOMAIN messages
    /\ "A" \in DOMAIN Facilities(dashboard_info)
    /\ LET m == Facilities(dashboard_info)["A"]["tunnel_message"]
       IN  /\ m \in DOMAIN messages
           /\ "A" \in FacilityKeys(tunnels)
           /\ messages[m].content.rows = LedgerRows(get_facility_tunnels(tunnels, "A"))
           /\ messages[m].content.rows
                 # LedgerRows(get_facility_tunnels(RenderTunnels, "A"))

----------------------------------------------------------------------------
(* Navigation: a dashboard is posted with a paginator over n tunnels, and  *)
(* its buttons are clicked.                                                *)

MaxTunnels == 17

NavIds == {"nav_first", "nav_prev", "nav_next", "nav_last"}

(* A variant of interaction_check whose next does not look at the last     *)
(* page.                                                                   *)
interaction_check_mutant_unbounded(p, cid) ==
    LET page1 == CASE cid = "nav_first" -> 0
                   [] cid = "nav_prev" /\ p.page > 0 -> p.page - 1
                   [] cid = "nav_next" -> p.page + 1
                   [] cid = "nav_last" -> p.total_pages - 1
                   [] OTHER -> p.page
    IN  [p EXCEPT !.page = page1,
                  !.response = IF page1 # p.page THEN "edit_message" ELSE "defer"]

(* DashboardPaginator.interaction_check for the custom id cid: the         *)
(* paginator after it.  A custom id that is not a navigation id is passed  *)
(* on to the item's callback.                                              *)
interaction_check(p, cid) ==
    IF cid \notin NavIds
    THEN [p EXCEPT !.response = "pass"]
    ELSE LET page1 == CASE cid = "nav_first" -> 0
                        [] cid = "nav_prev" /\ p.page > 0 -> p.page - 1
                        [] cid = "nav_next" /\ p.page < p.total_pages - 1 -> p.page + 1
                        [] cid = "nav_last" -> p.total_pages - 1
                        [] OTHER -> p.page
         IN  [p EXCEPT !.page = page1,
                       !.response = IF page1 # p.page THEN "edit_message"
                                    ELSE "defer"]

ViewFrame ==
    UNCHANGED <<memVars, fileVars, envVars, taskVars, issued, recorded, emitted, weekly,
                caller, request>>

(* A dashboard is posted for a facility of n tunnels.                      *)
post_dashboard(n) ==
    /\ paginator' = DashboardPaginator(n)
    /\ History("post_dashboard")
    /\ ViewFrame

(* A button of the posted dashboard is clicked.                            *)
click(cid) ==
    /\ paginator' = interaction_check(paginator, cid)
    /\ History(cid)
    /\ ViewFrame

NextNav ==
    \/ \E n \in 0..MaxTunnels : post_dashboard(n)
    \/ \E cid \in NavIds \cup {"add_1500"} : click(cid)

SpecNav == Init /\ [][NextNav]_vars

(* C12: the paginator always has at least one page, exactly as many as     *)
(* its tunnels need, and its page is one of them; a next on the last page  *)
(* and a prev on page 0 leave the page and are answered with a defer.      *)
C12_PageInRange ==
    /\ [](/\ paginator.total_pages >= 1
          /\ paginator.total_pages * per_page >= paginator.tunnels
          /\ (paginator.total_pages - 1) * per_page < Max(1, paginator.tunnels)
          /\ paginator.page >= 0
          /\ paginator.page <= paginator.total_pages - 1)
    /\ [][/\ (op' = "nav_next" /\ paginator.page = paginator.total_pages - 1) =>
               (paginator'.page = paginator.page /\ paginator'.response = "defer")
          /\ (op' = "nav_prev" /\ paginator.page = 0) =>
               (paginator'.page = 0 /\ paginator'.response = "defer")]_vars

(* Next was clicked on the last of three pages.                            *)
C12_Witness ==
    /\ op = "nav_next"
    /\ paginator.total_pages = 3
    /\ paginator.page = 2
    /\ paginator.response = "defer"

----------------------------------------------------------------------------
(* Two facilities: "A" is bound to channel 1 and "B" to channel 2, each    *)
(* with its dashboard posted; dashboards are deleted and reconciled, and   *)
(* the war is ended.                                                       *)

TwoTunnels ==
    <<[name |-> "A", tunnels |-> EmptyDict], [name |-> "B", tunnels |-> EmptyDict]>>

TwoInfo ==
    Put(EmptyDict, "facilities",
        [f \in {"A", "B"} |->
            normalize_facility_record(
                f, Put(Put(EmptyDict, "tunnel_channel", IF f = "A" THEN 1 ELSE 2),
                       "tunnel_message", IF f = "A" THEN 1 ELSE 2),
                11, 0)])

InitTwo ==
    InitWith(TwoTunnels, TwoInfo, NewOrders,
             [m \in {1, 2} |->
                 [channel |-> m,
                  content |-> build_page_embed(IF m = 1 THEN "A" ELSE "B", EmptyDict)]])

NextTwo ==
    \/ \E m \in 1..MaxMessages : DeleteMessage(m)
    \/ on_ready
    \/ refresh_dashboard_loop
    \/ \E ch \in {1, 2} : msupp_dashboard(ch, TRUE, ChannelName(ch), 11)
    \/ \E s \in Slots : RefreshFetch(s)
    \/ \E s \in Slots : RefreshEdit(s)
    \/ \E s \in Slots : RefreshSend(s)
    \/ endwar(11, TRUE, "")
    \/ endwar_close

SpecTwo == InitTwo /\ [][NextTwo]_vars

(* The handle stored for facility g.                                       *)
FacilityHandle(info, g) ==
    <<Get(Get(Facilities(info), g, EmptyDict), "tunnel_channel", 0),
      Get(Get(Facilities(info), g, EmptyDict), "tunnel_message", 0)>>

(* C13: a step of the reconcile of one facility's dashboard leaves the     *)
(* handle stored for every other facility as it was.                       *)
C13_OthersUntouched ==
    [][\A s \in Slots :
        (/\ op' \in {"refresh_fetch", "refresh_edit", "refresh_send"}
         /\ refresh'[s] # refresh[s]
         /\ refresh[s].kind = "msupp") =>
            \A g \in {"A", "B"} \ {refresh[s].facility} :
                FacilityHandle(dashboard_info', g) = FacilityHandle(dashboard_info, g)]_vars

----------------------------------------------------------------------------
(* The end of a war: a ledger with a facility, a tunnel, a user total, a   *)
(* contribution and an order, both dashboards posted; supplies are added   *)
(* and the war is ended, with archive writes that may fail.                *)

WarTunnels ==
    <<[name |-> "A",
       tunnels |-> Put(EmptyDict,
           "T1", [total_supplies |-> Units(100), usage_rate |-> 500,
                  location |-> "Unknown", last_updated |-> 0])]>>

WarInfo ==
    Put(Put(Put(EmptyDict, "facilities",
        Put(EmptyDict, "A",
            normalize_facility_record(
                "A", Put(Put(EmptyDict, "tunnel_channel", 1), "tunnel_message", 1),
                11, 0))),
        "orders_channel", 3), "orders_message", 2)

WarOrders ==
    [next_id |-> 2,
     orders |-> Put(EmptyDict, 1,
         [quantity |-> 5, status |-> "Order Placed", requested_by |-> 11,
          claimed_by |-> 0, timestamps |-> Put(EmptyDict, "created", 0)])]

WarUsers == Put(EmptyDict, 11, SUPPLY_INCREMENT_Dunne)

WarContributions ==
    log_contribution(EmptyDict, 11, "add supplies", SUPPLY_INCREMENT_Dunne, "T1", 0)

InitWar ==
    InitLedger(WarTunnels, WarInfo, WarOrders,
               Put(Put(EmptyDict,
                   1, [channel |-> 1,
                       content |-> build_page_embed(
                                       "A", get_facility_tunnels(WarTunnels, "A"))]),
                   2, [channel |-> 3,
                       content |-> build_clickable_order_dashboard(WarOrders)]),
               WarUsers, WarContributions)

ArchiveFailures == {"", "mkdir"} \cup {ArchiveFiles[i] : i \in 1..Len(ArchiveFiles)}

NextWar ==
    \/ \E officer \in BOOLEAN, fail \in ArchiveFailures : endwar(11, officer, fail)
    \/ endwar_close
    \/ endwar_orders
    \/ addsupplies(1, 12, "T1", SUPPLY_INCREMENT_Dunne)
    \/ RefreshFetch("cmd")
    \/ RefreshEdit("cmd")

SpecWar == InitWar /\ [][NextWar]_vars

(* The bundle holds every file of an archive.                              *)
Complete(bundle) == DOMAIN bundle = {ArchiveFiles[i] : i \in 1..Len(ArchiveFiles)}

(* A ledger table loses its entries, or the user totals are zeroed.        *)
Cleared ==
    \/ tunnels # <<>> /\ tunnels' = <<>>
    \/ orders_data.orders # EmptyDict /\ orders_data'.orders = EmptyDict
    \/ contributions # EmptyDict /\ contributions' = EmptyDict
    \/ Facilities(dashboard_info) # EmptyDict /\ Facilities(dashboard_info') = EmptyDict
    \/ \E u \in DOMAIN users : users[u] # 0 /\ (u \notin DOMAIN users' \/ users'[u] = 0)

(* C14: while /endwar is past its archive section the bundle it wrote is   *)
(* complete, and only then is a table cleared; an /endwar whose archive    *)
(* write fails ends there and leaves the ledger and its files unchanged.   *)
C14_ArchiveBeforeReset ==
    /\ [](war.pc # "idle" =>
            (Len(archives) > 0 /\ Complete(archives[Len(archives)])))
    /\ [][/\ Cleared =>
               /\ op' = "endwar_reset"
               /\ Len(archives') > 0
               /\ Complete(archives'[Len(archives')])
          /\ op' = "endwar_archive_failed" =>
               /\ UNCHANGED <<memVars, fileVars>>
               /\ war' = IdleWar]_vars

(* An archive write failed after three files: the ledger is as it was.     *)
C14_Witness ==
    /\ op = "endwar_archive_failed"
    /\ Len(archives) = 1
    /\ DOMAIN archives[1] = {"tunnels.json", "dashboard.json", "orders.json"}
    /\ tunnels # <<>>
    /\ orders_data.orders # EmptyDict
    /\ contributions # EmptyDict
    /\ users[11] # 0

(* C15: the reset of /endwar leaves no facility, tunnel, order or          *)
(* contribution, in memory and in the files, sets every user total to 0    *)
(* and keeps exactly the user ids there were.                              *)
C15_ResetClears ==
    [][op' = "endwar_reset" =>
          /\ tunnels' = <<>> /\ data_file' = <<>>
          /\ Facilities(dashboard_info') = EmptyDict
          /\ Facilities(dash_file') = EmptyDict
          /\ orders_data'.orders = EmptyDict /\ orders_file'.orders = EmptyDict
          /\ contributions' = EmptyDict
          /\ DOMAIN users' = DOMAIN users
          /\ \A u \in DOMAIN users' : users'[u] = 0
          /\ user_file' = users']_vars

(* The war has just been reset with two users and an order on the books.   *)
C15_Witness ==
    /\ op = "endwar_reset"
    /\ DOMAIN users = {11, 12}
    /\ Len(archives) = 1
    /\ Complete(archives[1])
    /\ 12 \in DOMAIN archives[1]["users.json"]
    /\ archives[1]["users.json"][12] > 0
    /\ archives[1]["orders.json"].orders # EmptyDict
    /\ tunnels = <<>>

----------------------------------------------------------------------------
(* The weekly cycle: the ledger of the war-end scenario, a week of noons,  *)
(* and supplies added by a second user.                                    *)

WeeklyTimes == {NoonSeconds, NoonSeconds + ResetWeekday * SecondsPerDay}

NextWeekly ==
    \/ \E t \in WeeklyTimes : Advance(t)
    \/ on_ready
    \/ \E channel \in BOOLEAN : weekly_leaderboard(channel)
    \/ WeeklyPost
    \/ WeeklyFail
    \/ addsupplies(1, 12, "T1", SUPPLY_INCREMENT_Dunne)
    \/ RefreshFetch("cmd")
    \/ RefreshEdit("cmd")

SpecWeekly == InitWar /\ [][NextWeekly]_vars

(* C16: a run of the weekly cycle that ends has, on the reset day, set     *)
(* every user total to 0 and kept every user entry, and on another day     *)
(* changed no total; tunnels, orders and contributions are as they were.   *)
C16_WeeklyReset ==
    [][(weekly' # weekly /\ weekly'.pc # "post") =>
          /\ weekday(weekly'.day) = ResetWeekday =>
                /\ DOMAIN users' = DOMAIN users
                /\ \A u \in DOMAIN users' : users'[u] = 0
          /\ weekday(weekly'.day) # ResetWeekday => users' = users
          /\ UNCHANGED <<tunnels, orders_data, contributions>>]_vars

----------------------------------------------------------------------------
(* The life of an order: orders are created, claimed by two users, given   *)
(* a status from the dropdown and marked complete.                         *)

(* self.values[0]: a label of the dropdown, or a value it does not offer.  *)
SubmittedValues == SelectOptions \cup {"Cancelled"}

LifecycleTimes == {120}

NextLifecycle ==
    \/ \E t \in LifecycleTimes : Advance(t)
    \/ \E authorized \in BOOLEAN : order_create(11, authorized, 5)
    \/ \E user \in UserIds, authorized \in BOOLEAN, id \in {1, 2} :
          claim_button(user, authorized, id)
    \/ \E v \in SubmittedValues : status_select(11, 1, v)
    \/ complete_button(12, TRUE, 1)

SpecLifecycle == Init /\ [][NextLifecycle]_vars

(* C17: the status of every order is one of the six statuses, whatever     *)
(* status the requests carried.                                            *)
C17_StatusEnumerated ==
    \A id \in DOMAIN orders_data.orders :
        orders_data.orders[id].status \in OrderStatuses

(* C18: a claim or a status request leaves the status of an order that is  *)
(* Complete; a created order is Order Placed and claimed by nobody.        *)
C18_CompleteTerminal ==
    [][/\ op' \in {"claim", "status"} =>
            \A id \in DOMAIN orders_data.orders \cap DOMAIN orders_data'.orders :
                orders_data.orders[id].status = "Complete" =>
                    orders_data'.orders[id].status = "Complete"
       /\ op' = "order_create" =>
            \A id \in DOMAIN orders_data'.orders \ DOMAIN orders_data.orders :
                /\ orders_data'.orders[id].status = "Order Placed"
                /\ orders_data'.orders[id].claimed_by = 0]_vars

(* C19: a claim leaves an order that another user has claimed as it was.   *)
C19_ClaimOnlyUnclaimed ==
    [][op' = "claim" =>
          \A id \in DOMAIN orders_data.orders :
              orders_data.orders[id].claimed_by \notin {0, caller'} =>
                  orders_data'.orders[id] = orders_data.orders[id]]_vars

(* C20: a claim that succeeds sets, for one order, claimed_by to the       *)
(* caller, the status to Order Claimed and timestamps["claimed"] to the    *)
(* time, leaves its other fields, the other orders and next_id, and has    *)
(* written orders.json; a claim that is refused (no such order, or no      *)
(* role) changes neither the table nor the file.                           *)
C20_ClaimEffect ==
    [][/\ op' = "claim" =>
            /\ \E id \in DOMAIN orders_data.orders :
                  /\ orders_data'.orders =
                        [orders_data.orders EXCEPT ![id] = orders_data'.orders[id]]
                  /\ orders_data'.orders[id] =
                        [orders_data.orders[id] EXCEPT
                            !.claimed_by = caller',
                            !.status = "Order Claimed",
                            !.timestamps = Put(@, "claimed", now)]
            /\ orders_data'.next_id = orders_data.next_id
            /\ orders_file' = orders_data'
       /\ op' = "claim_refused" => UNCHANGED <<orders_data, orders_file>>]_vars

(* User 12 has just claimed order 1 at 120 s; order 2 is as created.       *)
C20_Witness ==
    /\ op = "claim"
    /\ caller = 12
    /\ {1, 2} \subseteq DOMAIN orders_data.orders
    /\ orders_data.orders[1].claimed_by = 12
    /\ orders_data.orders[1].status = "Order Claimed"
    /\ orders_data.orders[1].timestamps["claimed"] = 120
    /\ orders_data.orders[2].status = "Order Placed"
    /\ orders_file = orders_data

----------------------------------------------------------------------------
(* Deleting orders: orders are created and claimed, and deleted by the     *)
(* command and by the button, by officers and by others.                   *)

NextDelete ==
    \/ \E t \in LifecycleTimes : Advance(t)
    \/ order_create(11, TRUE, 5)
    \/ \E id \in 1..MaxOrderId : claim_button(12, TRUE, id)
    \/ \E user \in UserIds, officer, button \in BOOLEAN, id \in 1..MaxOrderId :
          order_delete(user, officer, id, button)

SpecDelete == Init /\ [][NextDelete]_vars

(* C21: a delete by a caller who is no officer, or of an id that is not in *)
(* the order table, leaves the table, the id counter and orders.json; a    *)
(* delete by an officer of an id in the table removes that order, leaves   *)
(* the other orders, does not lower the id counter, and has written        *)
(* orders.json.                                                            *)
C21_DeleteFrame ==
    [][op' \in {"delete_refused", "order_delete"} =>
          IF request'.officer /\ request'.id \in DOMAIN orders_data.orders
          THEN /\ op' = "order_delete"
               /\ orders_data'.orders = Remove(orders_data.orders, request'.id)
               /\ orders_data'.next_id >= orders_data.next_id
               /\ orders_file' = orders_data'
          ELSE /\ op' = "delete_refused"
               /\ UNCHANGED <<orders_data, orders_file>>]_vars

(* An officer has just deleted order 1 of three; orders 2 and 3 are kept   *)
(* and the counter still stands at 4.                                      *)
C21_Witness ==
    /\ op = "order_delete"
    /\ request.id = 1
    /\ DOMAIN orders_data.orders = {2, 3}
    /\ orders_data.orders[2].claimed_by = 12
    /\ orders_data.next_id = 4
    /\ orders_file = orders_data

----------------------------------------------------------------------------
(* The scalar arguments of the commands: totals, rates, amounts and        *)
(* quantities below, at and above zero, in the thread of facility A.       *)

(* total_supplies and usage_rate of /addtunnel: one of them negative.      *)
InputTunnels == {<<-100, 60>>, <<200, -10>>}
InputAmounts == {-SUPPLY_INCREMENT_Dunne, SUPPLY_INCREMENT_Dunne}
InputQuantities == {0, 5}

(* The arguments /updatetunnel is given.                                   *)
InputFields ==
    {Put(EmptyDict, "supplies", -100),
     Put(EmptyDict, "usage_rate", -10),
     Put(Put(EmptyDict, "supplies", 300), "usage_rate", 60)}

NextInputs ==
    \/ \E tr \in InputTunnels : addtunnel(1, TRUE, 11, "T3", tr[1], tr[2])
    \/ \E fields \in InputFields : updatetunnel(1, TRUE, 11, "T1", fields)
    \/ \E amount \in InputAmounts : addsupplies(1, 12, "T1", amount)
    \/ \E quantity \in InputQuantities : order_create(11, TRUE, quantity)
    \/ RefreshFetch("cmd")
    \/ RefreshEdit("cmd")

SpecInputs == InitRender /\ [][NextInputs]_vars

(* The ledger and its files.                                               *)
ledgerVars ==
    <<tunnels, users, contributions, orders_data, data_file, user_file,
      contrib_file, orders_file>>

(* The last command was given an argument out of its range.                *)
OutOfRange(o, r) ==
    \/ /\ o \in {"addtunnel", "addtunnel_refused", "addtunnel_denied"}
       /\ (r.total < 0 \/ r.rate < 0)
    \/ /\ o \in {"updatetunnel", "updatetunnel_refused", "updatetunnel_denied"}
       /\ \/ "supplies" \in DOMAIN r.fields /\ r.fields["supplies"] < 0
          \/ "usage_rate" \in DOMAIN r.fields /\ r.fields["usage_rate"] < 0
    \/ /\ o \in {"addsupplies", "addsupplies_refused"}
       /\ r.amount < 0
    \/ /\ o \in {"order_create", "order_create_denied"}
       /\ r.quantity <= 0

(* C22: /addtunnel and /updatetunnel with negative supplies or a negative  *)
(* rate, /addsupplies with a negative amount and /order_create with a      *)
(* quantity of zero or less are refused and leave the ledger and its files *)
(* as they were.                                                           *)
C22_OutOfRangeRejected ==
    [][OutOfRange(op', request') =>
          /\ op' \notin {"addtunnel", "updatetunnel", "addsupplies", "order_create"}
          /\ UNCHANGED ledgerVars]_vars

----------------------------------------------------------------------------
(* The supplies of the tunnels over creation, additions, updates and the   *)
(* two decay call sites.                                                   *)

(* Facility A holds one tunnel that uses a Dunne load per tick.            *)
SupplyRate == SUPPLY_INCREMENT_Dunne * TickDivisor

SupplyTunnels ==
    <<[name |-> "A",
       tunnels |-> Put(EmptyDict,
           "T1", [total_supplies |-> Units(SUPPLY_INCREMENT_Dunne),
                  usage_rate |-> SupplyRate,
                  location |-> "Unknown", last_updated |-> 0])]>>

InitSupplies ==
    InitWith(SupplyTunnels, RenderInfo, NewOrders,
             Put(EmptyDict, 1,
                 [channel |-> 1,
                  content |-> build_page_embed(
                                  "A", get_facility_tunnels(SupplyTunnels, "A"))]))

SupplyTimes == {120}

NextSupplies ==
    \/ \E t \in SupplyTimes : Advance(t)
    \/ on_ready
    \/ refresh_dashboard_loop
    \/ addtunnel(1, TRUE, 11, "T3", 2 * SUPPLY_INCREMENT_Dunne, SupplyRate)
    \/ updatetunnel(1, TRUE, 11, "T1", Put(EmptyDict, "supplies", 0))
    \/ addsupplies(1, 12, "T1", -SUPPLY_INCREMENT_Dunne)
    \/ \E s \in Slots : RefreshFetch(s)
    \/ \E s \in Slots : RefreshEdit(s)

SpecSupplies == InitSupplies /\ [][NextSupplies]_vars

(* C23: the total_supplies of every tunnel is at least zero.               *)
C23_NonNegative ==
    \A i \in 1..Len(tunnels) : \A n \in DOMAIN tunnels[i].tunnels :
        tunnels[i].tunnels[n].total_supplies >= 0

(* C26: a step that creates a tunnel or changes a tunnel's total_supplies   *)
(* leaves that tunnel's last_updated at the time of the step.              *)
C26_LastUpdatedStamped ==
    [][\A i \in 1..Len(tunnels') : \A n \in DOMAIN tunnels'[i].tunnels :
          LET new == tunnels'[i].tunnels[n]
              changed == \/ i > Len(tunnels)
                         \/ n \notin DOMAIN tunnels[i].tunnels
                         \/ tunnels[i].tunnels[n].total_supplies # new.total_supplies
          IN  changed => new.last_updated = now']_vars

----------------------------------------------------------------------------
(* Updating tunnels: /updatetunnel in the thread of facility A and in a    *)
(* thread that an officer binds to a new facility B, over a restart.       *)

(* The arguments /updatetunnel is given: none, one that is zero, one that  *)
(* is a string, or two.                                                    *)
UpdateInputs ==
    {EmptyDict,
     Put(EmptyDict, "supplies", 0),
     Put(EmptyDict, "usage_rate", 0),
     Put(EmptyDict, "location", "Hill"),
     Put(Put(EmptyDict, "supplies", 300), "usage_rate", 60)}

(* What the calls are given: in the thread of A, T1 by an officer with     *)
(* every choice of arguments and by a member who is none; a name that no   *)
(* facility holds, in the thread of A and in the thread of B.              *)
UpdateCalls ==
    {<<1, TRUE, "T1", fields>> : fields \in UpdateInputs}
        \cup {<<1, FALSE, "T1", Put(EmptyDict, "supplies", 0)>>,
              <<1, TRUE, "T9", Put(EmptyDict, "supplies", 0)>>,
              <<2, TRUE, "T9", Put(EmptyDict, "supplies", 0)>>}

(* Facility A with two tunnels, and a user with a total.                   *)
InitUpdate ==
    InitLedger(RenderTunnels, RenderInfo, NewOrders,
               Put(EmptyDict, 1,
                   [channel |-> 1,
                    content |-> build_page_embed(
                                    "A", get_facility_tunnels(RenderTunnels, "A"))]),
               WarUsers, WarContributions)

NextUpdate ==
    \/ \E c \in UpdateCalls : updatetunnel(c[1], c[2], 11, c[3], c[4])
    \/ RefreshFetch("cmd")
    \/ RefreshEdit("cmd")
    \/ msupp_dashboard(2, TRUE, "B", 11)
    \/ restart
    \/ on_ready

SpecUpdate == InitUpdate /\ [][NextUpdate]_vars

(* The facilities that hold a tunnel of the name.                          *)
Holders(tn, name) == {i \in 1..Len(tn) : name \in DOMAIN tn[i].tunnels}

(* C24: an /updatetunnel that is carried out sets, in one tunnel of the    *)
(* name, each field that was given to the value given (a zero included)    *)
(* and leaves the fields that were not given, the other tunnels and the    *)
(* users' totals; an /updatetunnel of a name that no facility holds is     *)
(* refused and leaves the ledger and its files.                            *)
C24_UpdateFrame ==
    [][/\ op' = "updatetunnel" =>
            /\ \E i \in Holders(tunnels, request'.name) :
                  LET name == request'.name
                      fields == request'.fields
                      old == tunnels[i].tunnels[name]
                      new == tunnels'[i].tunnels[name]
                  IN  /\ tunnels' = [tunnels EXCEPT ![i].tunnels[name] = new]
                      /\ new.total_supplies =
                            IF "supplies" \in DOMAIN fields
                            THEN fields["supplies"] * SecondsPerHour
                            ELSE old.total_supplies
                      /\ new.usage_rate =
                            IF "usage_rate" \in DOMAIN fields
                            THEN fields["usage_rate"] ELSE old.usage_rate
                      /\ new.location =
                            IF "location" \in DOMAIN fields
                            THEN fields["location"] ELSE old.location
                      /\ new.last_updated = old.last_updated
            /\ UNCHANGED <<users, user_file>>
       /\ (/\ op' \in {"updatetunnel", "updatetunnel_refused"}
           /\ Holders(tunnels, request'.name) = {}) =>
            /\ op' = "updatetunnel_refused"
            /\ UNCHANGED ledgerVars]_vars

----------------------------------------------------------------------------
(* Deleting tunnels: /deletetunnel in the thread of facility A and in a    *)
(* thread that an officer binds to a new facility B, over a restart.       *)

(* What the calls are given: the tunnels of A by an officer and by a       *)
(* member who is none, from the thread of A and from a thread bound to no  *)
(* facility; a name that no facility holds, in the threads of A and of B.  *)
DeleteCalls ==
    {<<1, TRUE, "T1">>, <<1, TRUE, "T2">>, <<3, TRUE, "T1">>, <<1, FALSE, "T1">>,
     <<1, TRUE, "T9">>, <<2, TRUE, "T9">>}

NextRemove ==
    \/ \E c \in DeleteCalls : deletetunnel(c[1], c[2], 11, c[3])
    \/ RefreshFetch("cmd")
    \/ RefreshEdit("cmd")
    \/ msupp_dashboard(2, TRUE, "B", 11)
    \/ restart
    \/ on_ready

SpecRemove == InitUpdate /\ [][NextRemove]_vars

(* C25: a /deletetunnel that is carried out removes the name from one      *)
(* facility that held it and leaves that facility's other tunnels, the     *)
(* other facilities and the users' totals; a /deletetunnel of a name that  *)
(* no facility holds is refused and leaves the ledger: no facility is      *)
(* added or removed.                                                       *)
C25_DeleteFrame ==
    [][/\ op' = "deletetunnel" =>
            /\ \E i \in Holders(tunnels, request'.name) :
                  tunnels' = [tunnels EXCEPT
                                 ![i].tunnels = Remove(@, request'.name)]
            /\ UNCHANGED <<users, user_file>>
       /\ (/\ op' \in {"deletetunnel", "deletetunnel_refused"}
           /\ Holders(tunnels, request'.name) = {}) =>
            /\ op' = "deletetunnel_refused"
            /\ UNCHANGED ledgerVars]_vars

----------------------------------------------------------------------------
(* The two decay call sites over a stop and a start of the process: the    *)
(* clock moves, the loop ticks (late, when the clock has moved further     *)
(* than a tick), the process restarts and on_ready catches up.  No         *)
(* supplies are added.                                                     *)

RestartTimes == {120, 300}

NextRestart ==
    \/ \E t \in RestartTimes : Advance(t)
    \/ on_ready
    \/ refresh_dashboard_loop
    \/ restart

SpecRestart == InitDecay /\ [][NextRestart]_vars

(* What has been taken from T1 since the start, in the model's units.      *)
Removed ==
    get_facility_tunnels(DecayTunnels, "A")["T1"].total_supplies
        - get_facility_tunnels(tunnels, "A")["T1"].total_supplies

(* C27: T1 is never clamped and nothing is added to it; when a catch-up    *)
(* has run, and when a tick has run, what has been taken from T1 since     *)
(* the start is its usage_rate times the time that has passed.             *)
C27_DecayMatchesClock ==
    (/\ op \in {"on_ready", "tick"}
     /\ get_facility_tunnels(tunnels, "A")["T1"].total_supplies > 0)
        => Removed = get_facility_tunnels(DecayTunnels, "A")["T1"].usage_rate * now

----------------------------------------------------------------------------
(* /addsupplies while the dashboard refresh succeeds, fails, or has no     *)
(* dashboard to refresh: T1 is in facility A, whose dashboard is message 1 *)
(* of thread 1; T2 is in facility B, which has no dashboard.               *)

AddTunnels ==
    <<[name |-> "A",
       tunnels |-> Put(EmptyDict,
           "T1", [total_supplies |-> Units(100), usage_rate |-> 0,
                  location |-> "Unknown", last_updated |-> 0])],
      [name |-> "B",
       tunnels |-> Put(EmptyDict,
           "T2", [total_supplies |-> Units(100), usage_rate |-> 0,
                  location |-> "Unknown", last_updated |-> 0])]>>

InitAdd ==
    InitWith(AddTunnels, RenderInfo, NewOrders,
             Put(EmptyDict, 1,
                 [channel |-> 1,
                  content |-> build_page_embed(
                                  "A", get_facility_tunnels(AddTunnels, "A"))]))

NextAdd ==
    \/ addsupplies(1, 12, "T1", SUPPLY_INCREMENT_Dunne)
    \/ addsupplies(3, 12, "T2", SUPPLY_INCREMENT_Dunne)
    \/ DeleteMessage(1)
    \/ RefreshFetch("cmd")
    \/ RefreshEdit("cmd")
    \/ RefreshSend("cmd")
    \/ RefreshFail("cmd")

SpecAdd == InitAdd /\ [][NextAdd]_vars

(* The supplies of all tunnels of a ledger, in the model's units.          *)
AllSupplies(tn) ==
    SumSeq([i \in 1..Len(tn) |->
               SumOver(DOMAIN tn[i].tunnels,
                       [n \in DOMAIN tn[i].tunnels |-> tn[i].tunnels[n].total_supplies])])

(* C28: when no /addsupplies is in progress, every addition that was made  *)
(* is in the tunnels, in the user's total and in the user's contribution   *)
(* record, and the three files hold them, whether the refresh of the       *)
(* dashboard returned, failed, or had no dashboard to refresh.             *)
C28_AdditionRecorded ==
    refresh["cmd"].pc = "idle" =>
        /\ AllSupplies(tunnels) =
              AllSupplies(AddTunnels) + Units(SumOver(DOMAIN users, users))
        /\ \A u \in DOMAIN users :
              /\ u \in DOMAIN contributions
              /\ contributions[u].total_supplies = users[u]
        /\ data_file = tunnels
        /\ user_file = users
        /\ contrib_file = contributions

----------------------------------------------------------------------------
(* The ledger and its files: tunnels are added and deleted, supplies are   *)
(* added by the command, by the quick-add button of a dashboard and by the *)
(* stack modal, orders are created, and on_ready runs again on a           *)
(* reconnect.                                                              *)

NextPersist ==
    \/ on_ready
    \/ addtunnel(1, TRUE, 11, "T3", 200, 60)
    \/ deletetunnel(1, TRUE, 11, "T1")
    \/ addsupplies(1, 12, "T2", SUPPLY_INCREMENT_Dunne)
    \/ quick_add("cmd", 1, 12, "T1", SUPPLY_INCREMENT_Dunne)
    \/ stack_submit("cmd", 1, 12, "T2", 5)
    \/ order_create(11, TRUE, 5)
    \/ RefreshFetch("cmd")
    \/ RefreshEdit("cmd")

SpecPersist == InitUpdate /\ [][NextPersist]_vars

(* No handler and no task is between two awaits.                           *)
Quiescent ==
    /\ \A s \in Slots : refresh[s].pc \in {"idle", "dead"}
    /\ flush.pc = "idle"
    /\ war.pc = "idle"
    /\ weekly.pc \in {"idle", "dead"}

(* C29: when no handler is in progress, tunnels.json, users.json,          *)
(* contributions.json and orders.json hold the tunnels, the users' totals, *)
(* the contributions and the orders that are in memory.                    *)
C29_FilesHoldLedger ==
    Quiescent =>
        /\ data_file = tunnels
        /\ user_file = users
        /\ contrib_file = contributions
        /\ orders_file = orders_data

----------------------------------------------------------------------------
(* Two add-supplies handlers on the same tunnel T1, run as the tasks "cmd" *)
(* and "cmd2": each is the command, a quick-add button or the stack modal, *)
(* and each can start while the other one waits for the dashboard; user 11  *)
(* is behind "cmd" and user 12 behind "cmd2".  No tick and no catch-up     *)
(* runs.                                                                   *)

AddAmount == 300

AddStacks == 2

NextInterleave ==
    \/ \E c \in {<<"cmd", 11>>, <<"cmd2", 12>>} :
          \/ addsupplies_in(c[1], 1, c[2], "T1", AddAmount)
          \/ quick_add(c[1], 1, c[2], "T1", SUPPLY_INCREMENT_Dunne)
          \/ stack_submit(c[1], 1, c[2], "T1", AddStacks)
    \/ \E s \in {"cmd", "cmd2"} : RefreshFetch(s)
    \/ \E s \in {"cmd", "cmd2"} : RefreshEdit(s)

SpecInterleave == InitAdd /\ [][NextInterleave]_vars

(* C30: whatever the two handlers' steps are interleaved with, a step that *)
(* adds an amount for a user raises the total of T1 and the user's total   *)
(* by that amount and leaves the other users' totals alone, and no other   *)
(* step changes the total of T1 or a user's total: after two additions a1  *)
(* and a2 the tunnel holds its initial total + a1 + a2.                    *)
C30_NoLostAddition ==
    [][LET t0 == get_facility_tunnels(tunnels, "A")["T1"].total_supplies
           t1 == get_facility_tunnels(tunnels', "A")["T1"].total_supplies
       IN  IF op' \in {"addsupplies", "quick_add", "stack_submit"}
           THEN /\ t1 = t0 + Units(request'.amount)
                /\ users' = Put(users, request'.user,
                                Get(users, request'.user, 0) + request'.amount)
           ELSE /\ t1 = t0
                /\ users' = users]_vars

(* The command of user 11 and the button of user 12 have both added to T1  *)
(* and both wait for the dashboard.                                        *)
C30_Witness ==
    /\ refresh["cmd"].pc = "fetch"
    /\ refresh["cmd2"].pc = "fetch"
    /\ get_facility_tunnels(tunnels, "A")["T1"].total_supplies
          = get_facility_tunnels(AddTunnels, "A")["T1"].total_supplies
              + Units(AddAmount + SUPPLY_INCREMENT_Dunne)
    /\ users = Put(Put(EmptyDict, 11, AddAmount), 12, SUPPLY_INCREMENT_Dunne)

----------------------------------------------------------------------------
(* The layouts of tunnels.json and dashboard.json that the bot can find at *)
(* its start, the start itself, and on_ready, which runs again on every    *)
(* reconnect.                                                              *)

FlatTunnels ==
    Put(Put(EmptyDict,
        "T1", [total_supplies |-> Units(100), usage_rate |-> 60,
               location |-> "Unknown", last_updated |-> 0]),
        "T2", [total_supplies |-> Units(4000), usage_rate |-> 0,
               location |-> "Hill", last_updated |-> NoTime])

TunnelShapes == {"empty", "flat", "nested", "nested_two"}

TunnelDoc(shape) ==
    CASE shape = "empty" -> <<>>
      [] shape = "flat" -> FlatTunnels
      [] shape = "nested" -> RenderTunnels
      [] OTHER -> AddTunnels

DashShapes == {"empty", "old_keys", "top_level", "bare", "full", "list"}

(* old_keys: the first layout, channel / message / order_channel at the    *)
(* top level; top_level: tunnel_channel and tunnel_message at the top      *)
(* level beside a facility; bare: a facility that holds its binding only;  *)
(* full: a facility with every required field; list: a facility whose      *)
(* tunnels field is a list.                                                *)
DashDoc(shape) ==
    CASE shape = "empty" -> EmptyDict
      [] shape = "old_keys" ->
            Put(Put(Put(EmptyDict, "channel", 1), "message", 1), "order_channel", 2)
      [] shape = "top_level" ->
            Put(Put(Put(EmptyDict, "tunnel_channel", 1), "tunnel_message", 1),
                "facilities",
                Put(EmptyDict, "Legacy Facility",
                    Put(Put(EmptyDict, "tunnel_channel", 3), "created_by", 12)))
      [] shape = "bare" ->
            Put(EmptyDict, "facilities",
                Put(EmptyDict, "A",
                    Put(Put(EmptyDict, "tunnel_channel", 1), "tunnel_message", 1)))
      [] shape = "full" -> RenderInfo
      [] OTHER ->
            Put(EmptyDict, "facilities",
                Put(EmptyDict, "A",
                    Put(Put(EmptyDict, "tunnel_channel", 1),
                        "tunnels", JsonList(<<"T1">>))))

SchemaTimes == {120, 300}

NextSchema ==
    \/ \E ts \in TunnelShapes, ds \in DashShapes :
          module_load(TunnelDoc(ts), DashDoc(ds))
    \/ restart
    \/ on_ready
    \/ \E t \in SchemaTimes : Advance(t)

SpecSchema == Init /\ [][NextSchema]_vars

(* C31: the three normalisations are idempotent.  Once the module has      *)
(* loaded, a second migration leaves the tunnels in memory and the         *)
(* document in tunnels.json as they are and saves nothing; once on_ready   *)
(* has run, normalize_dashboard_info and normalize_all_facilities, run     *)
(* again at any later time, leave dashboard_info as it is and report no    *)
(* change.                                                                 *)
C31_NormalisationIdempotent ==
    /\ migrate_flat_tunnels_to_facilities(tunnels)
          = [tunnels |-> tunnels, saved |-> FALSE]
    /\ migrate_flat_tunnels_to_facilities(data_file)
          = [tunnels |-> data_file, saved |-> FALSE]
    /\ op = "on_ready" =>
          /\ normalize_dashboard_info(dashboard_info)
                = [info |-> dashboard_info, changed |-> FALSE]
          /\ \A t \in SchemaTimes :
                normalize_all_facilities(dashboard_info, t)
                  = [info |-> dashboard_info, changed |-> FALSE]

(* The start found a flat tunnels.json and a dashboard.json of the first   *)
(* layout, and on_ready has normalised them.                               *)
C31_Witness ==
    /\ op = "on_ready"
    /\ Len(tunnels) = 1
    /\ tunnels[1].name = "Legacy Facility"
    /\ DOMAIN tunnels[1].tunnels = DOMAIN FlatTunnels
    /\ "Legacy Facility" \in DOMAIN Facilities(dashboard_info)
    /\ "channel" \notin DOMAIN dashboard_info
    /\ "orders_channel" \in DOMAIN dashboard_info

(* The tunnels after the start are the loaded document doc, wrapped into   *)
(* the facility "Legacy Facility" and saved when doc is a flat map.        *)
MigratedFrom(doc) ==
    IF doc # <<>> /\ \E k \in DOMAIN doc : "tunnels" \notin DOMAIN doc[k]
    THEN /\ tunnels' = <<[name |-> "Legacy Facility", tunnels |-> doc]>>
         /\ data_file' = tunnels'
    ELSE tunnels' = doc

(* on_ready leaves the facilities in place and gives each record the       *)
(* required fields it lacks; Rule(f, k, old, new) says what becomes of the *)
(* field k that the record of f held.                                      *)
NormalisedWith(Rule(_, _, _, _)) ==
    LET before == Facilities(normalize_dashboard_info(dashboard_info).info)
        after == Facilities(dashboard_info')
    IN  /\ DOMAIN after = DOMAIN before
        /\ \A f \in DOMAIN before :
              /\ DOMAIN after[f] = (DOMAIN before[f]) \cup RequiredFacilityFields
              /\ \A k \in DOMAIN before[f] : Rule(f, k, before[f], after[f])

KeptAlways(f, k, old, new) == new[k] = old[k]

KeptUnlessBadTunnels(f, k, old, new) ==
    IF k = "tunnels" /\ ~IsDict(old[k]) THEN new[k] = EmptyDict ELSE new[k] = old[k]

(* C39 as stated: the start wraps a flat tunnel map into "Legacy Facility" *)
(* with the tunnels as they were, and leaves a nested or empty table as it *)
(* is; the normalisation of the facility records adds the missing required *)
(* fields and changes no field that a record holds.                        *)
C39_NeverOverwrites ==
    [][/\ op' = "module_load" => MigratedFrom(pre_tunnels')
       /\ op' = "on_ready" => NormalisedWith(KeptAlways)]_vars

(* C39, amended: as above, except that a tunnels field that is not a dict  *)
(* is replaced by an empty dict.                                           *)
C39_OverwritesOnlyBadTunnels ==
    [][/\ op' = "module_load" => MigratedFrom(pre_tunnels')
       /\ op' = "on_ready" => NormalisedWith(KeptUnlessBadTunnels)]_vars

(* The start has wrapped the flat map, and on_ready has normalised the     *)
(* facility whose tunnels field was a list.                                *)
C39_Witness ==
    /\ op = "on_ready"
    /\ Len(tunnels) = 1
    /\ tunnels[1].name = "Legacy Facility"
    /\ DOMAIN tunnels[1].tunnels = DOMAIN FlatTunnels
    /\ "A" \in DOMAIN Facilities(dashboard_info)
    /\ Facilities(dashboard_info)["A"]["tunnels"] = EmptyDict
    /\ Facilities(dashboard_info)["A"]["tunnel_channel"] = 1
    /\ Facilities(dashboard_info)["A"]["tunnel_message"] = 0

----------------------------------------------------------------------------
(* The users' totals and the contribution records: stacks are submitted,   *)
(* an officer corrects a total, and a war ends.                            *)

CorrectionAmounts == {-2 * SUPPLY_INCREMENT_Dunne, SUPPLY_INCREMENT_Dunne}

CorrectionStacks == {-5, 5}

NextCorrections ==
    \/ \E stacks \in CorrectionStacks : stack_submit("cmd", 1, 12, "T2", stacks)
    \/ \E amount \in CorrectionAmounts :
          adjust_contribution(TRUE, 11, 11, amount, "recount")
    \/ endwar(11, TRUE, "")
    \/ endwar_close
    \/ RefreshFetch("cmd")
    \/ RefreshEdit("cmd")

SpecCorrections == InitUpdate /\ [][NextCorrections]_vars

(* C32: no step takes an event out of a contribution record or changes     *)
(* one: every user's events are, in order, the first events of the user's  *)
(* record after the step.                                                  *)
C32_EventsAppendOnly ==
    [][\A u \in DOMAIN contributions :
          /\ u \in DOMAIN contributions'
          /\ Len(contributions'[u].actions) >= Len(contributions[u].actions)
          /\ SubSeq(contributions'[u].actions, 1, Len(contributions[u].actions))
                = contributions[u].actions]_vars

(* C33: no user total is negative.                                         *)
C33_TotalsNonNegative == \A u \in DOMAIN users : users[u] >= 0

----------------------------------------------------------------------------
(* Orders are created, claimed and deleted, a war ends, and the process    *)
(* ends and is started again: between two awaits, or inside the write of   *)
(* orders.json.                                                            *)

MaxIssued == 4

NextCrash ==
    \/ (Len(issued) < MaxIssued /\ order_create(11, TRUE, 5))
    \/ order_create_crash(11, TRUE, 5)
    \/ claim_button(12, TRUE, 1)
    \/ \E id \in 1..MaxOrderId : order_delete(11, TRUE, id, FALSE)
    \/ endwar(11, TRUE, "")
    \/ restart

SpecCrash == Init /\ [][NextCrash]_vars

(* Every order of the document has an id below next_id.                    *)
CounterAbove(od) == \A id \in DOMAIN od.orders : id < od.next_id

(* C34: in orders_data and in the document that orders.json yields,        *)
(* next_id is greater than the id of every order, before and after every   *)
(* step; and the id that order_create issues is the id of no order that    *)
(* orders.json held, also when the process had ended at any point of an    *)
(* earlier order_create and was started from the file.                     *)
C34_NextIdAboveOrders ==
    [][/\ CounterAbove(orders_data) /\ CounterAbove(load_orders(orders_file))
       /\ CounterAbove(orders_data') /\ CounterAbove(load_orders(orders_file'))
       /\ op' = "order_create" =>
             /\ issued' = Append(issued, orders_data.next_id)
             /\ orders_data.next_id \notin DOMAIN load_orders(orders_file).orders
             /\ orders_data.next_id \in DOMAIN load_orders(orders_file').orders]_vars

(* An order is created after the process ended inside a write of           *)
(* orders.json that followed another create.                               *)
C34_Witness ==
    /\ op = "order_create"
    /\ Len(issued) >= 2
    /\ orders_file = orders_data
    /\ DOMAIN orders_data.orders = {1}
    /\ orders_data.next_id = 2

----------------------------------------------------------------------------
(* The dashboard message of facility A is deleted, and the loop and a      *)
(* command refresh the facility at the same time.                          *)

NextOverlap ==
    \/ DeleteMessage(1)
    \/ on_ready
    \/ refresh_dashboard_loop
    \/ addsupplies(1, 12, "T2", SUPPLY_INCREMENT_Dunne)
    \/ \E s \in {"loop", "cmd"} : RefreshFetch(s)
    \/ \E s \in {"loop", "cmd"} : RefreshEdit(s)
    \/ \E s \in {"loop", "cmd"} : RefreshSend(s)

SpecOverlap == InitUpdate /\ [][NextOverlap]_vars

(* C35: when the refresh of the loop and the refresh of the command have   *)
(* both ended, the only dashboard message that exists is the one that the  *)
(* stored handle of facility A names.                                      *)
C35_NoOrphanDashboard ==
    (\A s \in {"loop", "cmd"} : refresh[s].pc \in {"idle", "dead"}) =>
        \A m \in DOMAIN messages :
            m = Facilities(dashboard_info)["A"]["tunnel_message"]

----------------------------------------------------------------------------
(* C36: the step of /endwar that clears the tables finds, in the bundle    *)
(* that this /endwar wrote, the tunnels, the user totals, the              *)
(* contributions and the orders as they are immediately before the step.   *)
C36_ArchiveHoldsWiped ==
    [][op' = "endwar_reset" =>
          LET bundle == archives'[Len(archives')]
          IN  /\ bundle["tunnels.json"] = tunnels
              /\ bundle["users.json"] = users
              /\ bundle["contributions.json"] = contributions
              /\ bundle["orders.json"] = orders_data]_vars

----------------------------------------------------------------------------
(* The four ways to add supplies: the command, the two quick-add buttons   *)
(* and the stack modal, on T1 of the bound facility A; and the command on  *)
(* T2 of facility B, which has no dashboard.                               *)

NextEntry ==
    \/ \E u \in UserIds : addsupplies(1, u, "T1", AddAmount)
    \/ addsupplies(3, 12, "T2", SUPPLY_INCREMENT_Stowheel)
    \/ \E u \in UserIds, amount \in {SUPPLY_INCREMENT_Dunne, SUPPLY_INCREMENT_Stowheel} :
          quick_add("cmd", 1, u, "T1", amount)
    \/ \E u \in UserIds : stack_submit("cmd", 1, u, "T1", AddStacks)
    \/ RefreshFetch("cmd")
    \/ RefreshEdit("cmd")

SpecEntry == InitAdd /\ [][NextEntry]_vars

(* The amounts of the events of user u for tunnel t, added up.             *)
EventSum(u, t) ==
    LET a == contributions[u].actions
    IN  SumSeq([i \in 1..Len(a) |-> IF a[i].tunnel = t THEN a[i].amount ELSE 0])

(* C37: when no addition is in progress, every user's total is the user's  *)
(* contribution total and the sum of the amounts of the user's events, and *)
(* every tunnel holds its first total and the amounts of the events that   *)
(* name it: each addition has raised the three totals by its amount and    *)
(* has left one event with the amount and the tunnel.                      *)
C37_AdditionFullyRecorded ==
    refresh["cmd"].pc = "idle" =>
        /\ \A u \in DOMAIN users :
              /\ u \in DOMAIN contributions
              /\ contributions[u].total_supplies = users[u]
              /\ EventSum(u, "T1") + EventSum(u, "T2") = users[u]
        /\ \A f \in {"A", "B"}, t \in TunnelInputs :
              t \in DOMAIN get_facility_tunnels(AddTunnels, f) =>
                  get_facility_tunnels(tunnels, f)[t].total_supplies
                    = get_facility_tunnels(AddTunnels, f)[t].total_supplies
                        + Units(SumOver(DOMAIN contributions,
                                        [u \in DOMAIN contributions |-> EventSum(u, t)]))

----------------------------------------------------------------------------
(* Additions that are refused: T3 does not exist, and T2 belongs to        *)
(* facility B while thread 1 is bound to facility A.  Additions to T1 are  *)
(* made in between.                                                        *)

RefusedCalls == {<<1, "T3">>, <<3, "T3">>, <<1, "T2">>}

NextRefused ==
    \/ \E c \in RefusedCalls \cup {<<1, "T1">>} :
          \/ addsupplies(c[1], 12, c[2], AddAmount)
          \/ \E amount \in {SUPPLY_INCREMENT_Dunne, SUPPLY_INCREMENT_Stowheel} :
                quick_add("cmd", c[1], 12, c[2], amount)
          \/ stack_submit("cmd", c[1], 12, c[2], AddStacks)
    \/ RefreshFetch("cmd")
    \/ RefreshEdit("cmd")

SpecRefused == InitAdd /\ [][NextRefused]_vars

(* C38: a refused addition leaves every tunnel, every user total, the      *)
(* contribution records and the log buffer as they were.                   *)
C38_RefusalChangesNothing ==
    [][op' \in {"addsupplies_refused", "quick_add_refused", "stack_submit_refused"} =>
          /\ \A i \in 1..Len(tunnels) : tunnels'[i] = tunnels[i]
          /\ users' = users
          /\ contributions' = contributions
          /\ log_buffer' = log_buffer]_vars

====
